---- MODULE Spec2Model ----
(***************************************************************************)
(* Signal synthesis engine of the XAU/USD analyzer: the detectors of       *)
(* lib/analysis.ts, the price-action builder of lib/priceaction.ts and the *)
(* fusion and context modifiers of pages/api/analyze.ts.                   *)
(*                                                                         *)
(* Number representation.                                                  *)
(*   prices, atr      integers, in cents (1 dollar = 100)                  *)
(*   confidences      integers, in thousandths of a point (70 = 70000)     *)
(*   ratios (R:R)     pairs [num, den] kept unreduced; den = 0 is the      *)
(*                    IEEE result of the division: 0/0 is NaN, x/0 is      *)
(*                    Infinity.  Every comparison with NaN is FALSE.       *)
(* The inputs are chosen so that every product with 0.2, 0.3, 0.4, 0.5,    *)
(* 0.6, 0.8 and 1.5 is an integer in these units.                          *)
(***************************************************************************)
EXTENDS Integers, Sequences, FiniteSets, TLC

VARIABLES pc, candles, rsi, macd, atr, spotPrice, amd, orderBlocks, fvgs,
          srLevels, liquidityZones, signal, priceActionSignal, fused,
          hybridSignal, spotInsights, newsRisk, newsBias,
          candlestickPatterns, chartShapes, ran,
          run, firstRun,
          todayNews, generated, narrative, deepAnalysis, response,
          canonical, configured, outcome, tried, fetched,
          waitlist, requests,
          maxRetries, attempt, replies, lastError, returned

\* the locals of one analyze request
pipelineVars == <<pc, candles, rsi, macd, atr, spotPrice, amd, orderBlocks,
                  fvgs, srLevels, liquidityZones, signal, priceActionSignal,
                  fused, hybridSignal, spotInsights, newsRisk, newsBias>>

\* the pattern detectors' results and the detectors that have run
scanVars == <<candlestickPatterns, chartShapes, ran>>

\* the number of the request and the outputs of the first one
repeatVars == <<run, firstRun>>

\* today's calendar, how the two text generations ended, the texts and the
\* answer
answerVars == <<todayNews, generated, narrative, deepAnalysis, response>>

\* the candle providers: symbol, keys, what each will do, calls, result
providerVars == <<canonical, configured, outcome, tried, fetched>>

\* the waitlist file and the POST requests in flight
waitlistVars == <<waitlist, requests>>

\* one fetchJsonWithRetry call: the retry limit, the loop counter, what each
\* fetch met, the error caught last and how the call ended
retryVars == <<maxRetries, attempt, replies, lastError, returned>>

otherVars == <<scanVars, repeatVars, answerVars, providerVars, waitlistVars,
               retryVars>>

vars == <<pipelineVars, otherVars>>

----------------------------------------------------------------------------
(* Arithmetic helpers                                                       *)

\* one confidence point, in thousandths
Pt == 10 * 100

\* one dollar, in cents
Dollar == 10 * 10

Abs(x) == IF x < 0 THEN -x ELSE x

Min2(a, b) == IF a < b THEN a ELSE b

Max2(a, b) == IF a > b THEN a ELSE b

\* Math.round / toFixed(0) of a non-negative confidence: half rounds up.
RoundPt(c) == ((c + (Pt \div 2)) \div Pt) * Pt

\* a / b as IEEE computes it, kept as the pair of its operands.
Ratio(a, b) == [num |-> a, den |-> b]

IsNaN(r) == r.den = 0 /\ r.num = 0

\* r > s and r > 0 for ratios of non-negative operands (FALSE on NaN).
RatioGT(r, s) ==
    /\ ~IsNaN(r)
    /\ ~IsNaN(s)
    /\ IF r.den = 0 THEN s.den # 0
       ELSE s.den # 0 /\ r.num * s.den > s.num * r.den

RatioPositive(r) == ~IsNaN(r) /\ r.num > 0

\* One confluence line: the template that produced it and its parameters.
Note(tag, n, x, y) == [tag |-> tag, n |-> n, x |-> x, y |-> y]

Actions == {"BUY", "SELL", "WAIT"}

Directional(a) == a \in {"BUY", "SELL"}

FilterCount(s, Test(_)) == Cardinality({i \in 1..Len(s) : Test(s[i])})

----------------------------------------------------------------------------
(* lib/analysis.ts                                                          *)

\* strength assigned by the branch of detectAMD that chose the phase
PhaseStrength(phase) ==
    CASE phase = "ACCUMULATION" -> 70
      [] phase = "DISTRIBUTION" -> 70
      [] phase = "MANIPULATION" -> 60
      [] phase = "DECLINE"      -> 75
      [] OTHER                  -> 40

\* Array.slice(-n): the last n elements, all of them when there are fewer
LastN(s, n) == SubSeq(s, Max2(1, Len(s) - n + 1), Len(s))

\* Math.max(...[]) is -Infinity and Math.min(...[]) is Infinity
NegInfinity == -(2 * 1000 * 1000 * 1000)

PosInfinity == 2 * 1000 * 1000 * 1000

MaxOf(S) == IF S = {} THEN NegInfinity ELSE CHOOSE m \in S : \A x \in S : x <= m

MinOf(S) == IF S = {} THEN PosInfinity ELSE CHOOSE m \in S : \A x \in S : m <= x

Highs(cs) == {cs[i].high : i \in 1..Len(cs)}

Lows(cs) == {cs[i].low : i \in 1..Len(cs)}

Closes(cs) == {cs[i].close : i \in 1..Len(cs)}

Body(c) == Abs(c.close - c.open)

UpperWick(c) == c.high - Max2(c.open, c.close)

LowerWick(c) == Min2(c.open, c.close) - c.low

\* num/den < a/b and num/den > a/b as IEEE decides them for den >= 0, b > 0:
\* 0/0 is NaN and compares FALSE, x/0 is an infinity with the sign of x
QuotientBelow(num, den, a, b) ==
    IF den = 0 THEN num < 0 ELSE num * b < a * den

QuotientAbove(num, den, a, b) ==
    IF den = 0 THEN num > 0 ELSE num * b > a * den

\* lines 220-235
detectSessionRanges(cs) ==
    LET recent == LastN(cs, 50)
        midpoint == Len(recent) \div 2
        firstHalf == SubSeq(recent, 1, midpoint)
        secondHalf == SubSeq(recent, midpoint + 1, Len(recent))
    IN  [asia   |-> [high |-> MaxOf(Highs(firstHalf)), low |-> MinOf(Lows(firstHalf))],
         london |-> [high |-> MaxOf(Highs(secondHalf)), low |-> MinOf(Lows(secondHalf))]]

\* lines 237-253
detectManipulation(cs) ==
    LET recent == LastN(cs, 10)
    IN  \E i \in 3..Len(recent) :
            LET curr == recent[i]
                upperWick == UpperWick(curr)
                bodySize == Body(curr)
            IN  /\ upperWick > bodySize * 2
                /\ 2 * curr.close < 2 * curr.high - upperWick

\* lines 255-270
detectDecline(cs) ==
    LET recent == LastN(cs, 20)
        lowerHighs == Cardinality({i \in 2..Len(recent) :
                                      recent[i].high < recent[i - 1].high})
        lowerLows  == Cardinality({i \in 2..Len(recent) :
                                      recent[i].low < recent[i - 1].low})
    IN  lowerHighs > 12 /\ lowerLows > 12

\* the average is kept to a thousandth of a cent
EmaUnit == 10 * 100

RECURSIVE SumCloses(_, _, _)
SumCloses(cs, from, to) ==
    IF from > to THEN 0 ELSE cs[from].close + SumCloses(cs, from + 1, to)

RECURSIVE EmaFrom(_, _, _, _)
EmaFrom(cs, period, i, ema) ==
    IF i > Len(cs) THEN ema
    ELSE EmaFrom(cs, period, i + 1,
                 ema + ((cs[i].close * EmaUnit - ema) * 2) \div (period + 1))

NoEma == [defined |-> FALSE, value |-> 0]

\* lines 272-285: null below `period` candles, else the simple average of the
\* first `period` closes carried forward with multiplier 2 / (period + 1)
calculateEMA(cs, period) ==
    IF Len(cs) < period THEN NoEma
    ELSE LET first == cs[1].close
             seed == first * EmaUnit
                     + ((SumCloses(cs, 1, period) - period * first) * EmaUnit)
                       \div period
         IN  [defined |-> TRUE, value |-> EmaFrom(cs, period, period + 1, seed)]

\* lines 190-201: range position first, then the EMA ordering
BiasOf(lastClose, sessionHigh, sessionLow, ema20, ema50) ==
    LET num == lastClose - sessionLow
        den == sessionHigh - sessionLow
        byPosition == IF QuotientAbove(num, den, 6, 10) THEN "BEARISH"
                      ELSE IF QuotientBelow(num, den, 4, 10) THEN "BULLISH"
                      ELSE "NEUTRAL"
    IN  IF ema20.defined /\ ema20.value # 0 /\ ema50.defined /\ ema50.value # 0
        THEN IF ema20.value > ema50.value
             THEN IF byPosition = "BEARISH" THEN "NEUTRAL" ELSE "BULLISH"
             ELSE IF byPosition = "BULLISH" THEN "NEUTRAL" ELSE "BEARISH"
        ELSE byPosition

\* the branches with the downtrend test moved to the front
PhaseOfDeclineFirst(cs, lastClose, sessionHigh, sessionLow, recentHigh, recentLow) ==
    LET posNum == lastClose - sessionLow
        posDen == sessionHigh - sessionLow
        expNum == sessionHigh - sessionLow
        expDen == recentHigh - recentLow
    IN  IF detectDecline(cs) THEN "DECLINE"
        ELSE IF QuotientBelow(posNum, posDen, 35, 100)
                /\ QuotientBelow(expNum, expDen, 1, 2)
        THEN "ACCUMULATION"
        ELSE IF QuotientAbove(posNum, posDen, 65, 100)
                /\ QuotientBelow(expNum, expDen, 1, 2)
        THEN "DISTRIBUTION"
        ELSE IF detectManipulation(cs) THEN "MANIPULATION"
        ELSE "TRANSITION"

\* lines 154-188: first matching branch
PhaseOf(cs, lastClose, sessionHigh, sessionLow, recentHigh, recentLow) ==
    LET posNum == lastClose - sessionLow
        posDen == sessionHigh - sessionLow
        expNum == sessionHigh - sessionLow
        expDen == recentHigh - recentLow
    IN  IF QuotientBelow(posNum, posDen, 35, 100) /\ QuotientBelow(expNum, expDen, 1, 2)
        THEN "ACCUMULATION"
        ELSE IF QuotientAbove(posNum, posDen, 65, 100)
                /\ QuotientBelow(expNum, expDen, 1, 2)
        THEN "DISTRIBUTION"
        ELSE IF detectManipulation(cs) THEN "MANIPULATION"
        ELSE IF detectDecline(cs) THEN "DECLINE"
        ELSE "TRANSITION"

\* lines 137-218
detectAMD(cs) ==
    LET latest == cs[Len(cs)]
        last20 == LastN(cs, 20)
        last50 == LastN(cs, 50)
        sessions == detectSessionRanges(cs)
        sessionHigh == MaxOf(Highs(last20))
        sessionLow  == MinOf(Lows(last20))
        recentHigh  == MaxOf(Highs(last50))
        recentLow   == MinOf(Lows(last50))
        phase == PhaseOf(cs, latest.close, sessionHigh, sessionLow,
                         recentHigh, recentLow)
    IN  [phase |-> phase,
         bias |-> BiasOf(latest.close, sessionHigh, sessionLow,
                         calculateEMA(cs, 20), calculateEMA(cs, 50)),
         strength |-> PhaseStrength(phase),
         sessionHigh |-> sessionHigh,
         sessionLow |-> sessionLow,
         asiaHigh |-> sessions.asia.high,
         asiaLow |-> sessions.asia.low,
         londonHigh |-> sessions.london.high,
         londonLow |-> sessions.london.low]

\* lines 683-692: impulse body against the two setup bodies
calculateOBStrength(c1, c2, c3) ==
    LET moveSize == Body(c3)
        setupSize == Body(c2) + Body(c1)
    IN  IF QuotientAbove(moveSize, setupSize, 25, 10) THEN "STRONG"
        ELSE IF QuotientAbove(moveSize, setupSize, 15, 10) THEN "MODERATE"
        ELSE "WEAK"

\* lines 624-635 and 642-653
NewBlock(kind, i, prev2, prev1, next) ==
    [id |-> <<kind, i>>,
     type |-> kind,
     top |-> MaxOf({prev2.open, prev2.close, prev1.open, prev1.close}),
     bottom |-> MinOf({prev2.open, prev2.close, prev1.open, prev1.close}),
     bodyTop |-> Max2(prev2.open, prev2.close),
     bodyBottom |-> Min2(prev2.open, prev2.close),
     time |-> prev1.time,
     strength |-> calculateOBStrength(prev2, prev1, next),
     touched |-> 0,
     broken |-> FALSE]

\* lines 614-655: i is the 0-based loop index, the bars are cs[i-1], cs[i], cs[i+2]
RECURSIVE ScanBlocks(_, _)
ScanBlocks(cs, i) ==
    IF i >= Len(cs) - 1 THEN <<>>
    ELSE LET prev2 == cs[i - 1]
             prev1 == cs[i]
             next  == cs[i + 2]
             bull == IF prev2.close < prev2.open /\ prev1.close < prev1.open
                        /\ next.close > next.open
                     THEN <<NewBlock("BULLISH", i, prev2, prev1, next)>> ELSE <<>>
             bear == IF prev2.close > prev2.open /\ prev1.close > prev1.open
                        /\ next.close < next.open
                     THEN <<NewBlock("BEARISH", i, prev2, prev1, next)>> ELSE <<>>
         IN  bull \o bear \o ScanBlocks(cs, i + 1)

\* lines 657-678: the latest bar touches or breaks a block
JudgeBlock(block, latest) ==
    [block EXCEPT
       !.touched = IF block.type = "BULLISH"
                   THEN IF latest.low <= block.bottom /\ latest.close > block.bottom
                        THEN 1 ELSE 0
                   ELSE IF latest.high >= block.top /\ latest.close < block.top
                        THEN 1 ELSE 0,
       !.broken = \/ block.type = "BULLISH" /\ latest.close < block.bottom
                  \/ block.type = "BEARISH" /\ latest.close > block.top]

\* lines 611-681
detectOrderBlocks(cs) ==
    LET blocks == ScanBlocks(cs, 3)
        judged == [k \in 1..Len(blocks) |-> JudgeBlock(blocks[k], cs[Len(cs)])]
    IN  SelectSeq(LastN(judged, 8), LAMBDA b : ~b.broken)

\* lines 699-733: i is the 0-based loop index, the bars are cs[i] and cs[i+2]
RECURSIVE ScanGaps(_, _)
ScanGaps(cs, i) ==
    IF i >= Len(cs) - 1 THEN <<>>
    ELSE LET prev == cs[i]
             curr == cs[i + 1]
             next == cs[i + 2]
             bull == IF prev.high < next.low
                     THEN <<[id |-> <<"BULLISH", i>>, type |-> "BULLISH",
                             top |-> next.low, bottom |-> prev.high,
                             size |-> next.low - prev.high,
                             midpoint |-> (next.low + prev.high) \div 2,
                             time |-> curr.time, mitigated |-> FALSE]>>
                     ELSE <<>>
             bear == IF prev.low > next.high
                     THEN <<[id |-> <<"BEARISH", i>>, type |-> "BEARISH",
                             top |-> prev.low, bottom |-> next.high,
                             size |-> prev.low - next.high,
                             midpoint |-> (prev.low + next.high) \div 2,
                             time |-> curr.time, mitigated |-> FALSE]>>
                     ELSE <<>>
         IN  bull \o bear \o ScanGaps(cs, i + 1)

\* lines 735-744: only the latest bar is tested against the midpoint
JudgeGap(gap, latest) ==
    [gap EXCEPT !.mitigated = \/ gap.type = "BULLISH" /\ latest.low < gap.midpoint
                              \/ gap.type = "BEARISH" /\ latest.high > gap.midpoint]

\* a gap scan that compares neighbouring bars
detectFVGsOfNeighbours(cs) ==
    LET gaps == ScanGaps(cs, 1)
    IN  IF Len(cs) >= 2 /\ cs[1].high < cs[2].low
        THEN <<[id |-> <<"BULLISH", 0>>, type |-> "BULLISH",
                top |-> cs[2].low, bottom |-> cs[1].high,
                size |-> cs[2].low - cs[1].high,
                midpoint |-> (cs[2].low + cs[1].high) \div 2,
                time |-> cs[1].time, mitigated |-> FALSE]>> \o gaps
        ELSE gaps

\* a gap scan that appends to the gaps found before
detectFVGsAccumulating(cs) ==
    LET gaps == ScanGaps(cs, 1)
        judged == [k \in 1..Len(gaps) |-> JudgeGap(gaps[k], cs[Len(cs)])]
    IN  fvgs \o SelectSeq(LastN(judged, 5), LAMBDA g : ~g.mitigated)

\* lines 696-747
detectFVGs(cs) ==
    LET gaps == ScanGaps(cs, 1)
        judged == [k \in 1..Len(gaps) |-> JudgeGap(gaps[k], cs[Len(cs)])]
    IN  SelectSeq(LastN(judged, 5), LAMBDA g : ~g.mitigated)

\* lines 596 and 601 (765 and 768): a strict extreme of the 5 bars on each side;
\* i is the 1-based position, 6 <= i <= Len - 5
IsSwingHigh(cs, i) ==
    /\ cs[i].high > MaxOf(Highs(SubSeq(cs, i - 5, i - 1)))
    /\ cs[i].high > MaxOf(Highs(SubSeq(cs, i + 1, i + 5)))

IsSwingLow(cs, i) ==
    /\ cs[i].low < MinOf(Lows(SubSeq(cs, i - 5, i - 1)))
    /\ cs[i].low < MinOf(Lows(SubSeq(cs, i + 1, i + 5)))

\* lines 582-607
RECURSIVE ScanSwings(_, _)
ScanSwings(cs, i) ==
    IF i > Len(cs) - 5 THEN <<>>
    ELSE (IF IsSwingHigh(cs, i)
          THEN <<[type |-> "HIGH", price |-> cs[i].high, time |-> cs[i].time]>>
          ELSE <<>>)
         \o (IF IsSwingLow(cs, i)
             THEN <<[type |-> "LOW", price |-> cs[i].low, time |-> cs[i].time]>>
             ELSE <<>>)
         \o ScanSwings(cs, i + 1)

findSwings(cs) == ScanSwings(cs, 6)

\* lines 536-580
detectLiquidityZones(cs) ==
    LET recentSwings == LastN(findSwings(cs), 6)
        latest == cs[Len(cs)]
        Zone(i) ==
            LET swing == recentSwings[i]
                type == IF swing.type = "HIGH" THEN "SELL_STOPS" ELSE "BUY_STOPS"
            IN  [id |-> <<type, i - 1>>,
                 type |-> type,
                 price |-> swing.price,
                 strength |-> 100 - (i - 1) * 10,
                 swept |-> \/ type = "SELL_STOPS" /\ latest.high > swing.price
                           \/ type = "BUY_STOPS" /\ latest.low < swing.price,
                 time |-> swing.time]
    IN  [i \in 1..Len(recentSwings) |-> Zone(i)]

\* Array.sort((a, b) => a - b)
RECURSIVE InsertSorted(_, _)
InsertSorted(x, s) ==
    IF s = <<>> THEN <<x>>
    ELSE IF x <= Head(s) THEN <<x>> \o s
    ELSE <<Head(s)>> \o InsertSorted(x, Tail(s))

RECURSIVE SortAscending(_)
SortAscending(s) ==
    IF s = <<>> THEN <<>> ELSE InsertSorted(Head(s), SortAscending(Tail(s)))

RECURSIVE SumSeq(_)
SumSeq(s) == IF s = <<>> THEN 0 ELSE Head(s) + SumSeq(Tail(s))

\* line 774
clusterTolerance == 15

\* lines 781-791: a price joins the open cluster when it is within the
\* tolerance of that cluster's last member
RECURSIVE Clusters(_, _, _)
Clusters(sorted, i, current) ==
    IF i > Len(sorted) THEN <<current>>
    ELSE IF sorted[i] - current[Len(current)] < clusterTolerance * Dollar
         THEN Clusters(sorted, i + 1, Append(current, sorted[i]))
         ELSE <<current>> \o Clusters(sorted, i + 1, <<sorted[i]>>)

\* lines 776-806: the level's price is the mean of its cluster, kept as
\* the pair (sum, touches)
clusterLevels(prices, type) ==
    IF prices = <<>> THEN <<>>
    ELSE LET sorted == SortAscending(prices)
             cl == Clusters(sorted, 2, <<sorted[1]>>)
         IN  [k \in 1..Len(cl) |->
                 [price |-> Ratio(SumSeq(cl[k]), Len(cl[k])),
                  type |-> type,
                  touches |-> Len(cl[k]),
                  strength |-> Ratio(Min2(Len(cl[k]), 5), 5),
                  broken |-> FALSE,
                  recentTest |-> Len(cl[k]) > 0]]

\* lines 813-827
JudgeLevel(level, cs) ==
    LET latest == cs[Len(cs)]
        n == level.price.den
        recent == LastN(cs, 10)
        Near(p) == Abs(p * n - level.price.num) < 10 * Dollar * n
    IN  [level EXCEPT
           !.broken = \/ level.type = "SUPPORT" /\ latest.close * n < level.price.num
                      \/ level.type = "RESISTANCE" /\ latest.close * n > level.price.num,
           !.recentTest = \E i \in 1..Len(recent) :
                              Near(recent[i].low) \/ Near(recent[i].high)]

\* a sort that puts the weakest level first
RECURSIVE ByStrengthAscending(_, _)
ByStrengthAscending(levels, k) ==
    IF k = 0 THEN <<>>
    ELSE ByStrengthAscending(levels, k - 1)
         \o SelectSeq(levels, LAMBDA l : l.strength.num = k)

\* Array.sort((a, b) => b.strength - a.strength): stable, strongest first
RECURSIVE ByStrength(_, _)
ByStrength(levels, k) ==
    IF k = 0 THEN <<>>
    ELSE SelectSeq(levels, LAMBDA l : l.strength.num = k) \o ByStrength(levels, k - 1)

RECURSIVE SwingPrices(_, _, _)
SwingPrices(cs, i, kind) ==
    IF i > Len(cs) - 5 THEN <<>>
    ELSE (IF kind = "HIGH" /\ IsSwingHigh(cs, i) THEN <<cs[i].high>>
          ELSE IF kind = "LOW" /\ IsSwingLow(cs, i) THEN <<cs[i].low>>
          ELSE <<>>)
         \o SwingPrices(cs, i + 1, kind)

\* lines 751-836
detectSRLevels(cs) ==
    LET supports == clusterLevels(SwingPrices(cs, 6, "LOW"), "SUPPORT")
        resistances == clusterLevels(SwingPrices(cs, 6, "HIGH"), "RESISTANCE")
        all == supports \o resistances
        judged == [k \in 1..Len(all) |-> JudgeLevel(all[k], cs)]
        kept == SelectSeq(judged, LAMBDA l : ~l.broken)
        sorted == ByStrength(kept, 5)
    IN  SubSeq(sorted, 1, Min2(6, Len(sorted)))

\* a stop placed two volatilities away instead of one and a half
StopDistanceDoubled(atrV) == atrV * 2

\* line 954: slDistance = atr * 1.5
StopDistance(atrV) == (atrV * 3) \div 2

\* line 955: the stop sits below the price for BUY, above it otherwise
StopLevel(action, price, dist) ==
    IF action = "BUY" THEN price - dist ELSE price + dist

\* lines 956-958: target k sits k stop distances from the price
TargetLevel(action, price, dist, k) ==
    IF action = "BUY" THEN price + dist * k ELSE price - dist * k

\* a confidence that leaves the regime strength out
WeightedConfidenceNoRegime(base, mta, pattern) ==
    Min2(base * Pt + Min2(pattern * 300, 15 * Pt), 95 * Pt)

\* lines 946-950: base + min(0.2 mta, 15) + min(0.3 pattern, 15), capped at 95
WeightedConfidence(base, mta, pattern) ==
    Min2(base * Pt + Min2(mta * 200, 15 * Pt) + Min2(pattern * 300, 15 * Pt),
         95 * Pt)

\* lines 861-882: the oscillator decides first
OscillatorStep(rsiV, macdV) ==
    IF rsiV < 30 THEN
        [action |-> "BUY", base |-> 65,
         notes |-> <<Note("RSI_OVERSOLD", 0, "", "")>>]
    ELSE IF rsiV > 70 THEN
        [action |-> "SELL", base |-> 65,
         notes |-> <<Note("RSI_OVERBOUGHT", 0, "", "")>>]
    ELSE IF rsiV < 40 /\ rsiV >= 30 THEN
        IF macdV.histogram > 0 THEN
            [action |-> "BUY", base |-> 60,
             notes |-> <<Note("RSI_RECOVERING_MACD_BULLISH", 0, "", "")>>]
        ELSE [action |-> "WAIT", base |-> 50, notes |-> <<>>]
    ELSE IF rsiV > 60 /\ rsiV <= 70 /\ macdV.histogram < 0 THEN
        [action |-> "SELL", base |-> 60,
         notes |-> <<Note("RSI_DECLINING_MACD_BEARISH", 0, "", "")>>]
    ELSE [action |-> "WAIT", base |-> 50, notes |-> <<>>]

\* a regime bias adopted only strictly beside 50
BiasOverrideBesideFifty(osc, amdV, rsiV) ==
    IF amdV.bias # "NEUTRAL" /\ osc.action = "WAIT" THEN
        IF amdV.bias = "BULLISH" /\ rsiV < 50 THEN
            [action |-> "BUY", base |-> 55,
             notes |-> Append(osc.notes, Note("AMD_BULLISH_BIAS", 0, amdV.phase, ""))]
        ELSE IF amdV.bias = "BEARISH" /\ rsiV > 50 THEN
            [action |-> "SELL", base |-> 55,
             notes |-> Append(osc.notes, Note("AMD_BEARISH_BIAS", 0, amdV.phase, ""))]
        ELSE osc
    ELSE osc

\* a regime bias that overrides whatever the oscillator decided
BiasOverrideAlways(osc, amdV, rsiV) ==
    IF amdV.bias = "BULLISH" THEN
        [action |-> "BUY", base |-> 55,
         notes |-> Append(osc.notes, Note("AMD_BULLISH_BIAS", 0, amdV.phase, ""))]
    ELSE IF amdV.bias = "BEARISH" THEN
        [action |-> "SELL", base |-> 55,
         notes |-> Append(osc.notes, Note("AMD_BEARISH_BIAS", 0, amdV.phase, ""))]
    ELSE osc

\* lines 884-895: the regime bias decides only when the oscillator did not
BiasOverride(osc, amdV, rsiV) ==
    IF amdV.bias # "NEUTRAL" /\ osc.action = "WAIT" THEN
        IF amdV.bias = "BULLISH" /\ rsiV < 55 THEN
            [action |-> "BUY", base |-> 55,
             notes |-> Append(osc.notes, Note("AMD_BULLISH_BIAS", 0, amdV.phase, ""))]
        ELSE IF amdV.bias = "BEARISH" /\ rsiV > 45 THEN
            [action |-> "SELL", base |-> 55,
             notes |-> Append(osc.notes, Note("AMD_BEARISH_BIAS", 0, amdV.phase, ""))]
        ELSE osc
    ELSE osc

\* lines 840-991
buildSignal(cs, rsiV, macdV, atrV, amdV, obs, gaps, srs) ==
    LET price == cs[Len(cs)].close
        osc == OscillatorStep(rsiV, macdV)
        dir == BiasOverride(osc, amdV, rsiV)
        action == dir.action
        Aligned(t, bull, bear) == \/ action = "BUY" /\ t = bull
                                  \/ action = "SELL" /\ t = bear
        \* order blocks (897-915)
        nOB     == FilterCount(obs, LAMBDA ob : Aligned(ob.type, "BULLISH", "BEARISH"))
        nStrong == FilterCount(obs, LAMBDA ob : Aligned(ob.type, "BULLISH", "BEARISH")
                                                /\ ob.strength = "STRONG")
        obStep == IF nOB > 0 THEN
                      IF nStrong > 0 THEN
                          [base |-> 10, pattern |-> 25,
                           notes |-> <<Note("STRONG_ORDER_BLOCKS", nStrong, "", "")>>]
                      ELSE
                          [base |-> 5, pattern |-> 15,
                           notes |-> <<Note("ORDER_BLOCKS_IN_ZONE", nOB, "", "")>>]
                  ELSE [base |-> 0, pattern |-> 0, notes |-> <<>>]
        \* fair value gaps (917-928)
        nFVG == FilterCount(gaps, LAMBDA g : Aligned(g.type, "BULLISH", "BEARISH"))
        fvgStep == IF nFVG > 0 THEN
                       [base |-> 5, pattern |-> 10,
                        notes |-> <<Note("FVG_ENTRY_CONTEXT", nFVG, "", "")>>]
                   ELSE [base |-> 0, pattern |-> 0, notes |-> <<>>]
        \* support and resistance (930-941)
        nSR == FilterCount(srs, LAMBDA sr : Aligned(sr.type, "SUPPORT", "RESISTANCE"))
        srStep == IF nSR > 0 THEN
                      [base |-> nSR * 5, pattern |-> nSR * 10,
                       notes |-> <<Note("SR_LEVELS_SUPPORTING", nSR, "", "")>>]
                  ELSE [base |-> 0, pattern |-> 0, notes |-> <<>>]
        baseConfidence == dir.base + obStep.base + fvgStep.base + srStep.base
        patternScore   == obStep.pattern + fvgStep.pattern + srStep.pattern
        mtaScore       == amdV.strength
        confidence == WeightedConfidence(baseConfidence, mtaScore, patternScore)
        \* entry, stop and targets (952-963)
        entry      == price
        slDistance == StopDistance(atrV)
        sl  == StopLevel(action, price, slDistance)
        tp1 == TargetLevel(action, price, slDistance, 2)
        tp2 == TargetLevel(action, price, slDistance, 3)
        tp3 == TargetLevel(action, price, slDistance, 4)
    IN  [action      |-> action,
         confidence  |-> RoundPt(confidence),
         entry       |-> entry,
         entryZone   |-> <<price - atrV \div 2, price + atrV \div 2>>,
         stopLoss    |-> sl,
         tp1         |-> tp1,
         tp2         |-> tp2,
         tp3         |-> tp3,
         rr1         |-> Ratio(Abs(tp1 - entry), Abs(entry - sl)),
         rr2         |-> Ratio(Abs(tp2 - entry), Abs(entry - sl)),
         rr3         |-> Ratio(Abs(tp3 - entry), Abs(entry - sl)),
         pips        |-> [sl  |-> Abs(entry - sl) * 10,
                          tp1 |-> Abs(tp1 - entry) * 10,
                          tp2 |-> Abs(tp2 - entry) * 10,
                          tp3 |-> Abs(tp3 - entry) * 10],
         confluences |-> dir.notes \o obStep.notes \o fvgStep.notes \o srStep.notes,
         invalidation |-> [side  |-> IF action = "BUY" THEN "below" ELSE "above",
                           level |-> sl],
         sessionBias |-> amdV.bias,
         mtaScore    |-> mtaScore,
         patternScore |-> patternScore,
         liquidityScore |-> 0,
         overallScore |-> RoundPt(confidence)]

----------------------------------------------------------------------------
(* lib/priceaction.ts                                                       *)

\* a candlestick observation; index is the 0-based position of its last bar
Pattern(name, type, strength, confidence) ==
    [name |-> name, type |-> type, strength |-> strength, index |-> 0,
     confidence |-> confidence]

\* 60 + ratio * 15 and 65 + ratio * 5 in thousandths, the quotient cut to a
\* thousandth
Scaled(base, num, den, factor) == base * Pt + (num * factor * Pt) \div den

EngulfStrength(currentBody, prevBody) ==
    IF QuotientAbove(currentBody, prevBody, 2, 1) THEN "strong"
    ELSE IF QuotientAbove(currentBody, prevBody, 15, 10) THEN "moderate"
    ELSE "weak"

\* lines 100-121
detectBullishEngulfing(prev, current) ==
    IF /\ prev.close < prev.open /\ current.close > current.open
       /\ current.open <= prev.close /\ current.close >= prev.open
    THEN <<Pattern("Bullish Engulfing", "bullish",
                   EngulfStrength(Body(current), Body(prev)),
                   Min2(95 * Pt, Scaled(60, Body(current), Body(prev), 15)))>>
    ELSE <<>>

\* lines 123-144
detectBearishEngulfing(prev, current) ==
    IF /\ prev.close > prev.open /\ current.close < current.open
       /\ current.open >= prev.close /\ current.close <= prev.open
    THEN <<Pattern("Bearish Engulfing", "bearish",
                   EngulfStrength(Body(current), Body(prev)),
                   Min2(95 * Pt, Scaled(60, Body(current), Body(prev), 15)))>>
    ELSE <<>>

\* lines 146-166
detectHammer(c) ==
    LET body == Body(c)
        range == c.high - c.low
    IN  IF /\ LowerWick(c) > body * 2
           /\ UpperWick(c) * 2 < body
           /\ body * 5 > range
        THEN <<Pattern("Hammer", "bullish",
                       IF LowerWick(c) > body * 3 THEN "strong" ELSE "moderate",
                       Min2(85 * Pt, Scaled(65, LowerWick(c), body, 5)))>>
        ELSE <<>>

\* lines 168-188
detectShootingStar(c) ==
    LET body == Body(c)
        range == c.high - c.low
    IN  IF /\ UpperWick(c) > body * 2
           /\ LowerWick(c) * 2 < body
           /\ body * 5 > range
        THEN <<Pattern("Shooting Star", "bearish",
                       IF UpperWick(c) > body * 3 THEN "strong" ELSE "moderate",
                       Min2(85 * Pt, Scaled(65, UpperWick(c), body, 5)))>>
        ELSE <<>>

\* lines 190-205
detectDoji(c) ==
    LET range == c.high - c.low
    IN  IF Body(c) * 10 < range /\ range > 0
        THEN <<Pattern("Doji", "neutral", "moderate", 70 * Pt)>>
        ELSE <<>>

\* lines 207-224
detectMorningStar(first, second, third) ==
    IF /\ first.close < first.open
       /\ Body(second) * 2 < Body(first)
       /\ third.close > third.open
       /\ third.close * 2 > first.open + first.close
    THEN <<Pattern("Morning Star", "bullish",
                   IF third.close > first.open THEN "strong" ELSE "moderate",
                   85 * Pt)>>
    ELSE <<>>

\* lines 226-243
detectEveningStar(first, second, third) ==
    IF /\ first.close > first.open
       /\ Body(second) * 2 < Body(first)
       /\ third.close < third.open
       /\ third.close * 2 < first.open + first.close
    THEN <<Pattern("Evening Star", "bearish",
                   IF third.close < first.open THEN "strong" ELSE "moderate",
                   85 * Pt)>>
    ELSE <<>>

\* lines 245-276
detectPinBar(c) ==
    LET body == Body(c)
        totalRange == c.high - c.low
    IN  IF LowerWick(c) * 10 > totalRange * 6 /\ body * 10 < totalRange * 3
        THEN <<Pattern("Pin Bar (Bullish)", "bullish", "strong", 80 * Pt)>>
        ELSE IF UpperWick(c) * 10 > totalRange * 6 /\ body * 10 < totalRange * 3
        THEN <<Pattern("Pin Bar (Bearish)", "bearish", "strong", 80 * Pt)>>
        ELSE <<>>

At(ps, i) == [k \in 1..Len(ps) |-> [ps[k] EXCEPT !.index = i]]

\* lines 59-95: i is the 0-based index of the current bar
RECURSIVE ScanPatterns(_, _)
ScanPatterns(cs, i) ==
    IF i >= Len(cs) THEN <<>>
    ELSE LET current == cs[i + 1]
             prev    == cs[i]
             prev2   == cs[i - 1]
         IN  At(detectBullishEngulfing(prev, current)
                \o detectBearishEngulfing(prev, current)
                \o detectHammer(current)
                \o detectShootingStar(current)
                \o detectDoji(current)
                \o detectMorningStar(prev2, prev, current)
                \o detectEveningStar(prev2, prev, current)
                \o detectPinBar(current), i)
             \o ScanPatterns(cs, i + 1)

\* lines 55-98
detectCandlestickPatterns(cs) ==
    IF Len(cs) < 3 THEN <<>> ELSE ScanPatterns(cs, 2)

\* lines 279-324: the ratios are kept as (wick, totalRange) pairs and the
\* significance is cut to a thousandth
analyzeWicks(c) ==
    LET body == Body(c)
        upperWick == UpperWick(c)
        lowerWick == LowerWick(c)
        totalRange == c.high - c.low
        Part(x) == IF totalRange > 0 THEN Ratio(x, totalRange) ELSE Ratio(0, 1)
        Over(r, a, b) == r.num * b > a * r.den
        Under(r, a, b) == r.num * b < a * r.den
        Times(r, f) == (r.num * f * Pt) \div r.den
        up == Part(upperWick)
        lo == Part(lowerWick)
        bd == Part(body)
        verdict ==
            IF Over(lo, 5, 10) /\ Under(up, 2, 10)
            THEN [sentiment |-> "bullish", rejectionType |-> "lower",
                  significance |-> Min2(100 * Pt, Times(lo, 150))]
            ELSE IF Over(up, 5, 10) /\ Under(lo, 2, 10)
            THEN [sentiment |-> "bearish", rejectionType |-> "upper",
                  significance |-> Min2(100 * Pt, Times(up, 150))]
            ELSE IF c.close > c.open /\ Over(bd, 6, 10)
            THEN [sentiment |-> "bullish", rejectionType |-> "none",
                  significance |-> Times(bd, 70)]
            ELSE IF c.close < c.open /\ Over(bd, 6, 10)
            THEN [sentiment |-> "bearish", rejectionType |-> "none",
                  significance |-> Times(bd, 70)]
            ELSE [sentiment |-> "neutral", rejectionType |-> "none",
                  significance |-> 0]
    IN  [upperWickRatio |-> up, lowerWickRatio |-> lo, bodyRatio |-> bd,
         sentiment |-> verdict.sentiment,
         rejectionType |-> verdict.rejectionType,
         significance |-> verdict.significance]

ChartPattern(name, type, direction, startIndex, endIndex, breakout, target, confidence) ==
    [name |-> name, type |-> type, direction |-> direction,
     startIndex |-> startIndex, endIndex |-> endIndex,
     breakoutLevel |-> breakout, targetLevel |-> target,
     confidence |-> confidence]

\* second-half range of the last 20 bars against a share of the first-half range
Contracting(recent, a, b) ==
    LET firstHalf == SubSeq(recent, 1, 10)
        secondHalf == SubSeq(recent, 11, Len(recent))
        firstHalfRange == MaxOf(Highs(firstHalf)) - MinOf(Lows(firstHalf))
        secondHalfRange == MaxOf(Highs(secondHalf)) - MinOf(Lows(secondHalf))
    IN  secondHalfRange * b < firstHalfRange * a

\* lines 346-379
detectTriangle(cs) ==
    IF Len(cs) < 20 THEN <<>>
    ELSE LET recent == LastN(cs, 20)
             highestHigh == MaxOf(Highs(recent))
             lowestLow == MinOf(Lows(recent))
             range == highestHigh - lowestLow
             bullish == recent[Len(recent)].close * 2 > highestHigh + lowestLow
         IN  IF Contracting(recent, 7, 10)
             THEN <<ChartPattern("Symmetrical Triangle", "continuation",
                                 IF bullish THEN "bullish" ELSE "bearish",
                                 Len(cs) - 20, Len(cs) - 1,
                                 IF bullish THEN highestHigh ELSE lowestLow,
                                 IF bullish THEN highestHigh + range
                                 ELSE lowestLow - range,
                                 75 * Pt)>>
             ELSE <<>>

\* lines 381-415
detectWedge(cs) ==
    IF Len(cs) < 20 THEN <<>>
    ELSE LET recent == LastN(cs, 20)
             rising == recent[Len(recent)].close > recent[1].close
             top == MaxOf(Highs(recent))
             bottom == MinOf(Lows(recent))
             range == top - bottom
         IN  IF Contracting(recent, 6, 10)
             THEN <<ChartPattern(IF rising THEN "Rising Wedge" ELSE "Falling Wedge",
                                 "reversal",
                                 IF rising THEN "bearish" ELSE "bullish",
                                 Len(cs) - 20, Len(cs) - 1,
                                 IF rising THEN bottom ELSE top,
                                 IF rising THEN bottom - range ELSE top + range,
                                 72 * Pt)>>
             ELSE <<>>

RECURSIVE SumBodies(_)
SumBodies(cs) == IF cs = <<>> THEN 0 ELSE Body(Head(cs)) + SumBodies(Tail(cs))

\* lines 417-454: the pole is slice(-25, -15), the flag the last 15 closes
detectFlag(cs) ==
    IF Len(cs) < 15 THEN <<>>
    ELSE LET recent == LastN(cs, 15)
             pole == SubSeq(cs, Max2(1, Len(cs) - 24), Len(cs) - 15)
         IN  IF Len(pole) < 10 THEN <<>>
             ELSE LET poleStart == pole[1].close
                      poleEnd == pole[Len(pole)].close
                      poleMove == Abs(poleEnd - poleStart)
                      flagRange == MaxOf(Closes(recent)) - MinOf(Closes(recent))
                      bullish == poleEnd > poleStart
                  IN  IF poleMove * Len(pole) < SumBodies(pole) * 5 THEN <<>>
                      ELSE IF flagRange * 10 < poleMove * 4
                      THEN <<ChartPattern(IF bullish THEN "Bull Flag" ELSE "Bear Flag",
                                          "continuation",
                                          IF bullish THEN "bullish" ELSE "bearish",
                                          Len(cs) - 15, Len(cs) - 1,
                                          IF bullish THEN MaxOf(Closes(recent))
                                          ELSE MinOf(Closes(recent)),
                                          IF bullish THEN poleEnd + poleMove
                                          ELSE poleEnd - poleMove,
                                          78 * Pt)>>
                      ELSE <<>>

\* lines 327-344
detectChartPatterns(cs) ==
    IF Len(cs) < 20 THEN <<>>
    ELSE detectTriangle(cs) \o detectWedge(cs) \o detectFlag(cs)

NoChartPattern ==
    ChartPattern("none", "none", "none", 0, 0, 0, 0, 0)

\* lines 472-481: confidence-weighted sum of the recent patterns of one type
RECURSIVE PatternScore(_, _)
PatternScore(ps, type) ==
    IF ps = <<>> THEN 0
    ELSE LET p == Head(ps)
             w == IF p.type = type
                  THEN IF p.strength = "strong" THEN (p.confidence * 3) \div 2
                       ELSE p.confidence
                  ELSE 0
         IN  w + PatternScore(Tail(ps), type)

\* lines 483-492: a wick reading counts only above significance 60
WickScore(wick, sentiment) ==
    IF wick.significance > 60 * Pt /\ wick.sentiment = sentiment
    THEN wick.significance ELSE 0

\* lines 494-504: only the first chart pattern counts; not bullish is bearish
ChartScore(cps, direction) ==
    IF cps = <<>> THEN 0
    ELSE IF direction = "bullish"
         THEN IF cps[1].direction = "bullish" THEN cps[1].confidence ELSE 0
         ELSE IF cps[1].direction = "bullish" THEN 0 ELSE cps[1].confidence

\* the direction of the higher score, whatever its size
ScoreActionWithoutMinimum(bullishScore, bearishScore) ==
    IF bullishScore > bearishScore THEN "BUY"
    ELSE IF bearishScore > bullishScore THEN "SELL"
    ELSE "WAIT"

\* lines 514-531: the direction the two scores select
ScoreAction(bullishScore, bearishScore) ==
    IF bullishScore > bearishScore /\ bullishScore > 65 * Pt THEN "BUY"
    ELSE IF bearishScore > bullishScore /\ bearishScore > 65 * Pt THEN "SELL"
    ELSE "WAIT"

RECURSIVE PatternNotes(_)
PatternNotes(ps) ==
    IF ps = <<>> THEN <<>>
    ELSE LET p == Head(ps)
         IN  (IF p.type \in {"bullish", "bearish"}
              THEN <<Note(p.name, RoundPt(p.confidence) \div Pt, "", "")>>
              ELSE <<>>) \o PatternNotes(Tail(ps))

\* lines 468-547: the signal built from the detected features
signalFromFeatures(recentPatterns, wickAnalysis, chartPatterns, currentPrice, atrV) ==
    LET bullishScore == PatternScore(recentPatterns, "bullish")
                        + WickScore(wickAnalysis, "bullish")
                        + ChartScore(chartPatterns, "bullish")
        bearishScore == PatternScore(recentPatterns, "bearish")
                        + WickScore(wickAnalysis, "bearish")
                        + ChartScore(chartPatterns, "bearish")
        action == ScoreAction(bullishScore, bearishScore)
        confidence == IF action = "BUY" THEN Min2(95 * Pt, bullishScore)
                      ELSE IF action = "SELL" THEN Min2(95 * Pt, bearishScore)
                      ELSE 0
        entry == currentPrice
        stopLoss == IF action = "BUY" THEN currentPrice - (atrV * 3) \div 2
                    ELSE IF action = "SELL" THEN currentPrice + (atrV * 3) \div 2
                    ELSE currentPrice
        takeProfit1 == IF action = "BUY" THEN currentPrice + atrV * 2
                       ELSE IF action = "SELL" THEN currentPrice - atrV * 2
                       ELSE currentPrice
        takeProfit2 == IF action = "BUY" THEN currentPrice + (atrV * 7) \div 2
                       ELSE IF action = "SELL" THEN currentPrice - (atrV * 7) \div 2
                       ELSE currentPrice
        wickNotes == IF wickAnalysis.significance > 60 * Pt
                        /\ wickAnalysis.sentiment \in {"bullish", "bearish"}
                     THEN <<Note("WICK_REJECTION",
                                 RoundPt(wickAnalysis.significance) \div Pt,
                                 wickAnalysis.sentiment, "")>>
                     ELSE <<>>
        chartNotes == IF chartPatterns = <<>> THEN <<>>
                      ELSE <<Note(chartPatterns[1].name, 0,
                                  IF chartPatterns[1].direction = "bullish"
                                  THEN "breakout" ELSE "breakdown", "")>>
    IN  [action       |-> action,
         confidence   |-> confidence,
         entry        |-> entry,
         stopLoss     |-> stopLoss,
         takeProfit1  |-> takeProfit1,
         takeProfit2  |-> takeProfit2,
         riskReward   |-> Ratio(Abs(takeProfit1 - entry), Abs(stopLoss - entry)),
         patterns     |-> recentPatterns,
         chartPattern |-> IF chartPatterns = <<>> THEN NoChartPattern
                          ELSE chartPatterns[1],
         wickAnalysis |-> wickAnalysis,
         confluences  |-> PatternNotes(recentPatterns) \o wickNotes \o chartNotes]

\* lines 457-548
generatePriceActionSignal(cs, currentPrice, atrV) ==
    LET patterns == detectCandlestickPatterns(cs)
        recentPatterns == SelectSeq(patterns, LAMBDA q : q.index >= Len(cs) - 3)
    IN  signalFromFeatures(recentPatterns, analyzeWicks(cs[Len(cs)]),
                           detectChartPatterns(cs), currentPrice, atrV)

----------------------------------------------------------------------------
(* pages/api/analyze.ts                                                     *)

Names(ps) == [i \in 1..Len(ps) |-> ps[i].name]

\* the agreement weights handed to the wrong builders
AgreeConfidenceSwapped(ictConf, paConf) ==
    Min2(95 * Pt, (ictConf * 4 + paConf * 6) \div 10)

\* line 56: both builders agree
AgreeConfidence(ictConf, paConf) ==
    Min2(95 * Pt, (ictConf * 6 + paConf * 4) \div 10)

\* a conflict that keeps the weaker confidence without halving it
ConflictConfidenceUnhalved(ictConf, paConf) == Min2(ictConf, paConf)

\* line 83: the builders point in opposite directions
ConflictConfidence(ictConf, paConf) == Min2(ictConf, paConf) \div 2

\* line 97: only the price-action builder has a direction
AdoptedPAConfidence(paConf) == (paConf * 8) \div 10

\* lines 111-120: only the ICT builder has a direction; the signal is kept
KeptICTConfidence(ictConf) == ictConf

\* lines 50-131
combineSignals(ictSignal, paSignal, atrV) ==
    LET ictAction == ictSignal.action
        paAction  == paSignal.action
        withPA    == ("priceActionPatterns" :> Names(paSignal.patterns)) @@ ictSignal
    IN  IF ictAction = paAction /\ ictAction # "WAIT" THEN
            LET combinedConfidence == AgreeConfidence(ictSignal.confidence,
                                                      paSignal.confidence)
                avgEntry == (ictSignal.entry + paSignal.entry) \div 2
                avgTP1   == (ictSignal.tp1 + paSignal.takeProfit1) \div 2
                avgSL    == (ictSignal.stopLoss + paSignal.stopLoss) \div 2
            IN  [withPA EXCEPT
                   !.action = ictAction,
                   !.confidence = combinedConfidence,
                   !.entry = avgEntry,
                   !.tp1 = avgTP1,
                   !.stopLoss = avgSL,
                   !.rr1 = Ratio(Abs(avgTP1 - avgEntry), Abs(avgSL - avgEntry)),
                   !.confluences = ictSignal.confluences \o
                       <<Note("PA_CONFIRMATION", Len(paSignal.patterns), "", ""),
                         Note("COMBINED_CONFIDENCE",
                              RoundPt(combinedConfidence) \div Pt, "", "")>>]
        ELSE IF ictAction # paAction /\ ictAction # "WAIT" /\ paAction # "WAIT" THEN
            [withPA EXCEPT
               !.action = "WAIT",
               !.confidence = ConflictConfidence(ictSignal.confidence,
                                                 paSignal.confidence),
               !.confluences = Append(ictSignal.confluences,
                   Note("SIGNAL_CONFLICT", 0, ictAction, paAction))]
        ELSE IF ictAction = "WAIT" /\ paAction # "WAIT" THEN
            [withPA EXCEPT
               !.action = paSignal.action,
               !.confidence = AdoptedPAConfidence(paSignal.confidence),
               !.entry = paSignal.entry,
               !.tp1 = paSignal.takeProfit1,
               !.stopLoss = paSignal.stopLoss,
               !.rr1 = paSignal.riskReward,
               !.confluences =
                   <<Note("PA_SIGNAL", RoundPt(paSignal.confidence) \div Pt,
                          paSignal.action, "")>>
                   \o paSignal.confluences
                   \o <<Note("ICT_CONSOLIDATION", 0, "", "")>>]
        ELSE IF paAction = "WAIT" /\ ictAction # "WAIT" THEN
            [withPA EXCEPT
               !.confidence = KeptICTConfidence(ictSignal.confidence),
               !.confluences = Append(ictSignal.confluences,
                   Note("PA_CONSOLIDATION", RoundPt(ictSignal.confidence) \div Pt,
                        ictAction, ""))]
        ELSE
            [withPA EXCEPT
               !.confluences = Append(ictSignal.confluences,
                   Note("BOTH_CONSOLIDATION", 0, "", ""))]

NoRange == [present |-> FALSE, nan |-> FALSE, positionPct |-> 0]

NoInsights == [present |-> FALSE, spreadQuality |-> "NONE", weeklyRange |-> NoRange]

\* pos > limit and pos < limit on a position that may be NaN (tenths of a percent)
PosAbove(wr, limit) == ~wr.nan /\ wr.positionPct > limit * 10

PosBelow(wr, limit) == ~wr.nan /\ wr.positionPct < limit * 10

\* a penalty with its floor at 60
PenalizeFloorSixty(c, d) == Max2(60 * Pt, c - d * Pt)

\* a penalty that forgets the floor of 20
PenalizeNoFloor(c, d) == c - d * Pt

\* Math.max(20, c - d) and Math.min(95, c + d)
Penalize(c, d) == Max2(20 * Pt, c - d * Pt)

Boost(c, d) == Min2(95 * Pt, c + d * Pt)

\* lines 198-202
applySpread(sig, insights) ==
    IF insights.present /\ insights.spreadQuality = "WIDE" /\ sig.action # "WAIT"
    THEN [sig EXCEPT !.confidence = Penalize(sig.confidence, 10),
                     !.confluences = Append(sig.confluences,
                                            Note("WIDE_SPREAD", 0, "", ""))]
    ELSE sig

\* lines 204-223: four tests in sequence on the same position
applyWeeklyRange(sig, insights) ==
    IF ~(insights.present /\ insights.weeklyRange.present) THEN sig
    ELSE
    LET wr == insights.weeklyRange
        pos == IF wr.nan THEN -1 ELSE wr.positionPct
        s1 == IF sig.action = "BUY" /\ PosAbove(wr, 80)
              THEN [sig EXCEPT !.confidence = Penalize(sig.confidence, 8),
                               !.confluences = Append(sig.confluences,
                                   Note("NEAR_WEEKLY_HIGH_BUY_RISK", pos, "", ""))]
              ELSE sig
        s2 == IF s1.action = "SELL" /\ PosBelow(wr, 20)
              THEN [s1 EXCEPT !.confidence = Penalize(s1.confidence, 8),
                              !.confluences = Append(s1.confluences,
                                  Note("NEAR_WEEKLY_LOW_SELL_RISK", pos, "", ""))]
              ELSE s1
        s3 == IF s2.action = "BUY" /\ PosBelow(wr, 30)
              THEN [s2 EXCEPT !.confidence = Boost(s2.confidence, 5),
                              !.confluences = Append(s2.confluences,
                                  Note("DISCOUNT_ZONE", pos, "", ""))]
              ELSE s2
        s4 == IF s3.action = "SELL" /\ PosAbove(wr, 70)
              THEN [s3 EXCEPT !.confidence = Boost(s3.confidence, 5),
                              !.confluences = Append(s3.confluences,
                                  Note("PREMIUM_ZONE", pos, "", ""))]
              ELSE s3
    IN  s4

\* a news block that forces WAIT but leaves the confidence uncapped
applyNewsRiskUncapped(sig, risk) ==
    IF risk.avoid /\ sig.action # "WAIT"
    THEN [sig EXCEPT !.action = "WAIT",
                     !.confluences = Append(sig.confluences,
                                            Note("BLOCKED_NEWS", 0, "", ""))]
    ELSE sig

\* a news block that caps the confidence but leaves the action standing
applyNewsRiskCapOnly(sig, risk) ==
    IF risk.avoid /\ sig.action # "WAIT"
    THEN [sig EXCEPT !.confidence = Min2(sig.confidence, 25 * Pt),
                     !.confluences = Append(sig.confluences,
                                            Note("BLOCKED_NEWS", 0, "", ""))]
    ELSE sig

\* lines 225-230
applyNewsRisk(sig, risk) ==
    IF risk.avoid /\ sig.action # "WAIT"
    THEN [sig EXCEPT !.action = "WAIT",
                     !.confidence = Min2(sig.confidence, 25 * Pt),
                     !.confluences = Append(sig.confluences,
                                            Note("BLOCKED_NEWS", 0, "", ""))]
    ELSE sig

\* a fundamental bias that turns a waiting signal into a trade
applyNewsBiasRearming(sig, nb) ==
    IF nb.bias = "BULLISH_GOLD" /\ sig.action \in {"BUY", "WAIT"}
    THEN [sig EXCEPT !.action = "BUY",
                     !.confidence = Boost(sig.confidence, 10),
                     !.confluences = Append(sig.confluences,
                                            Note("FUNDAMENTALS_CONFIRM_BULLISH", 0, "", ""))]
    ELSE IF nb.bias = "BEARISH_GOLD" /\ sig.action \in {"SELL", "WAIT"}
    THEN [sig EXCEPT !.action = "SELL",
                     !.confidence = Boost(sig.confidence, 10),
                     !.confluences = Append(sig.confluences,
                                            Note("FUNDAMENTALS_CONFIRM_BEARISH", 0, "", ""))]
    ELSE IF \/ nb.bias = "BULLISH_GOLD" /\ sig.action = "SELL"
            \/ nb.bias = "BEARISH_GOLD" /\ sig.action = "BUY"
    THEN [sig EXCEPT !.confidence = Penalize(sig.confidence, 15),
                     !.confluences = Append(sig.confluences,
                                            Note("FUNDAMENTALS_CONFLICT", 0, "", ""))]
    ELSE sig

\* lines 232-244
applyNewsBias(sig, nb) ==
    IF nb.bias = "BULLISH_GOLD" /\ sig.action = "BUY"
    THEN [sig EXCEPT !.confidence = Boost(sig.confidence, 10),
                     !.confluences = Append(sig.confluences,
                                            Note("FUNDAMENTALS_CONFIRM_BULLISH", 0, "", ""))]
    ELSE IF nb.bias = "BEARISH_GOLD" /\ sig.action = "SELL"
    THEN [sig EXCEPT !.confidence = Boost(sig.confidence, 10),
                     !.confluences = Append(sig.confluences,
                                            Note("FUNDAMENTALS_CONFIRM_BEARISH", 0, "", ""))]
    ELSE IF \/ nb.bias = "BULLISH_GOLD" /\ sig.action = "SELL"
            \/ nb.bias = "BEARISH_GOLD" /\ sig.action = "BUY"
    THEN [sig EXCEPT !.confidence = Penalize(sig.confidence, 15),
                     !.confluences = Append(sig.confluences,
                                            Note("FUNDAMENTALS_CONFLICT", 0, "", ""))]
    ELSE sig

----------------------------------------------------------------------------
(* Inputs of one analyze request                                            *)

Bar(t, o, h, l, c) == [time |-> t, open |-> o, high |-> h, low |-> l, close |-> c]

FlatBar(t, p) == Bar(t, p, p, p, p)

BasePrice == 2000 * Dollar

Biases == {"BULLISH", "BEARISH", "NEUTRAL"}

\* the regime handed to buildSignal: only phase, bias and strength are read
Regime(phase, bias) ==
    [phase |-> phase, bias |-> bias, strength |-> PhaseStrength(phase),
     sessionHigh |-> BasePrice, sessionLow |-> BasePrice,
     asiaHigh |-> BasePrice, asiaLow |-> BasePrice,
     londonHigh |-> BasePrice, londonLow |-> BasePrice]

OrderBlock(type, strength) == [type |-> type, strength |-> strength]

Gap(type) == [type |-> type]

Level(type) == [type |-> type]

\* longest support/resistance list handed to buildSignal
MaxSR == 2

RECURSIVE SeqsUpTo(_, _)
SeqsUpTo(S, n) ==
    IF n = 0 THEN {<<>>}
    ELSE LET shorter == SeqsUpTo(S, n - 1)
         IN  shorter \cup {Append(q, x) : q \in shorter, x \in S}

RsiValues == {25, 35, 50, 65, 75}

HistValues == {-5, 0, 5}

AtrValues == {0, 16 * Dollar}

SpotValues == {BasePrice, BasePrice + 2 * Dollar}

\* last close of the candle series handed to buildSignal
CloseValues == {BasePrice, BasePrice + 4 * Dollar}

Phases == {"ACCUMULATION", "DISTRIBUTION", "MANIPULATION", "DECLINE",
           "TRANSITION"}

\* one strong bullish block, alone or next to blocks of the other side
StrongBlockCases ==
    {<<OrderBlock("BULLISH", "STRONG")>>,
     <<OrderBlock("BEARISH", "STRONG"), OrderBlock("BULLISH", "STRONG")>>,
     <<OrderBlock("BULLISH", "STRONG"), OrderBlock("BULLISH", "WEAK")>>}

OrderBlockCases == {<<>>, <<OrderBlock("BULLISH", "STRONG")>>,
                    <<OrderBlock("BEARISH", "MODERATE")>>}

GapCases == {<<>>, <<Gap("BULLISH")>>, <<Gap("BEARISH")>>}

LevelCases == SeqsUpTo({Level("SUPPORT"), Level("RESISTANCE")}, MaxSR)

BuildInput(r, h, b, ph, obs, gaps, srs, a) ==
    [rsi |-> r, hist |-> h, bias |-> b, phase |-> ph, obs |-> obs,
     gaps |-> gaps, srs |-> srs, atr |-> a]

\* oscillator, momentum and bias in every combination, without zones;
\* the oscillator extremes with every zone list
BuildInputs ==
    {BuildInput(r, h, b, "TRANSITION", <<>>, <<>>, <<>>, a) :
        r \in RsiValues, h \in HistValues, b \in Biases, a \in AtrValues}
    \cup
    {BuildInput(50, 0, b, ph, <<>>, <<>>, <<>>, 16 * Dollar) :
        b \in Biases, ph \in {"DECLINE", "MANIPULATION"}}
    \cup
    {BuildInput(r, 0, "NEUTRAL", ph, obs, gaps, srs, 16 * Dollar) :
        r \in {25, 75}, ph \in {"TRANSITION", "ACCUMULATION"},
        obs \in OrderBlockCases, gaps \in GapCases, srs \in LevelCases}
    \cup
    {BuildInput(25, 5, b, ph, obs, gaps, <<>>, a) :
        b \in {"BULLISH", "BEARISH"}, ph \in Phases,
        obs \in StrongBlockCases, gaps \in {<<>>, <<Gap("BEARISH")>>},
        a \in AtrValues}

Wick(sentiment, rejection, significance) ==
    [upperWickRatio |-> Ratio(0, 1), lowerWickRatio |-> Ratio(0, 1),
     bodyRatio |-> Ratio(0, 1), sentiment |-> sentiment,
     rejectionType |-> rejection, significance |-> significance]

Chart(name, type, direction, confidence) ==
    ChartPattern(name, type, direction, 0, 19, BasePrice, BasePrice, confidence)

Features(ps, w, cps) == [patterns |-> ps, wick |-> w, chart |-> cps]

NeutralWick == Wick("neutral", "none", 0)

\* what the candlestick, wick and chart detectors can report on the last bars
FeatureCases ==
    { Features(<<>>, NeutralWick, <<>>),
      Features(<<>>, Wick("bullish", "none", 70 * Pt), <<>>),
      Features(<<>>, Wick("bullish", "none", 66 * Pt), <<>>),
      Features(<<>>, Wick("bullish", "none", 63 * Pt), <<>>),
      Features(<<>>, Wick("bearish", "none", 70 * Pt), <<>>),
      Features(<<Pattern("Doji", "neutral", "moderate", 70 * Pt)>>, NeutralWick, <<>>),
      Features(<<Pattern("Hammer", "bullish", "moderate", 76 * Pt)>>, NeutralWick, <<>>),
      Features(<<Pattern("Bearish Engulfing", "bearish", "strong", 95 * Pt)>>,
               NeutralWick, <<>>),
      Features(<<Pattern("Hammer", "bullish", "moderate", 76 * Pt),
                 Pattern("Evening Star", "bearish", "moderate", 85 * Pt)>>,
               Wick("bullish", "lower", 90 * Pt),
               <<Chart("Symmetrical Triangle", "continuation", "bullish", 75 * Pt)>>),
      Features(<<>>, NeutralWick,
               <<Chart("Rising Wedge", "reversal", "bearish", 72 * Pt)>>) }

WeeklyRange(pos) == [present |-> TRUE, nan |-> FALSE, positionPct |-> pos]

NaNRange == [present |-> TRUE, nan |-> TRUE, positionPct |-> 0]

\* weekly-range positions in tenths of a percent
WeeklyPositions == {100, 250, 500, 750, 900}

Insights(q, wr) == [present |-> TRUE, spreadQuality |-> q, weeklyRange |-> wr]

InsightCases ==
    {NoInsights}
    \cup {Insights(q, wr) : q \in {"NORMAL", "WIDE"},
                            wr \in {NoRange, NaNRange}
                                   \cup {WeeklyRange(p) : p \in WeeklyPositions}}

NewsBiases == {"BULLISH_GOLD", "BEARISH_GOLD", "NEUTRAL"}

----------------------------------------------------------------------------
(* The analyze handler, lines 169-244, one step per statement block         *)

\* nothing scanned, one request, no calendar, no text, no answer
ScanIdle == candlestickPatterns = <<>> /\ chartShapes = <<>> /\ ran = {}

RepeatIdle == run = 1 /\ firstRun = <<>>

AnswerIdle ==
    /\ todayNews = <<>>
    /\ generated = <<>>
    /\ narrative = ""
    /\ deepAnalysis = ""
    /\ response = [status |-> 0]

ProviderIdle ==
    /\ canonical = "XAU/USD"
    /\ configured = {}
    /\ outcome = <<>>
    /\ tried = <<>>
    /\ fetched = [provider |-> "none"]

WaitlistIdle == waitlist = <<>> /\ requests = <<>>

RetryIdle ==
    /\ maxRetries = 0
    /\ attempt = 0
    /\ replies = <<>>
    /\ lastError = [name |-> "none"]
    /\ returned = [kind |-> "none"]

OtherIdle ==
    /\ ScanIdle /\ RepeatIdle /\ AnswerIdle /\ ProviderIdle /\ WaitlistIdle
    /\ RetryIdle

NoSignal == [action |-> "WAIT", confidence |-> 0]

Init ==
    /\ pc = "start"
    /\ candles = <<>>
    /\ rsi = 50
    /\ macd = [histogram |-> 0]
    /\ atr = 0
    /\ spotPrice = 0
    /\ amd = Regime("TRANSITION", "NEUTRAL")
    /\ orderBlocks = <<>>
    /\ fvgs = <<>>
    /\ srLevels = <<>>
    /\ liquidityZones = <<>>
    /\ signal = NoSignal
    /\ priceActionSignal = NoSignal
    /\ fused = NoSignal
    /\ hybridSignal = NoSignal
    /\ spotInsights = NoInsights
    /\ newsRisk = [avoid |-> FALSE]
    /\ newsBias = [bias |-> "NEUTRAL"]
    /\ OtherIdle

\* lines 145-174: the fetched inputs and the ICT engine
RunICT ==
    /\ pc = "start"
    /\ \E inp \in BuildInputs, close \in CloseValues :
          /\ candles' = <<FlatBar(1, close)>>
          /\ rsi' = inp.rsi
          /\ macd' = [histogram |-> inp.hist]
          /\ atr' = inp.atr
          /\ amd' = Regime(inp.phase, inp.bias)
          /\ orderBlocks' = inp.obs
          /\ fvgs' = inp.gaps
          /\ srLevels' = inp.srs
    /\ signal' = buildSignal(candles', rsi', macd', atr', amd',
                             orderBlocks', fvgs', srLevels')
    /\ pc' = "ict"
    /\ UNCHANGED <<spotPrice, liquidityZones, priceActionSignal, fused,
                   hybridSignal, spotInsights, newsRisk, newsBias>>
    /\ UNCHANGED otherVars

\* line 181
RunPriceAction ==
    /\ pc = "ict"
    /\ \E f \in FeatureCases, sp \in SpotValues :
          /\ spotPrice' = sp
          /\ priceActionSignal' =
                signalFromFeatures(f.patterns, f.wick, f.chart, sp, atr)
    /\ pc' = "pa"
    /\ UNCHANGED <<candles, rsi, macd, atr, amd, orderBlocks, fvgs, srLevels,
                   liquidityZones, signal, fused, hybridSignal, spotInsights,
                   newsRisk, newsBias>>
    /\ UNCHANGED otherVars

\* line 184
Combine ==
    /\ pc = "pa"
    /\ hybridSignal' = combineSignals(signal, priceActionSignal, atr)
    /\ fused' = hybridSignal'
    /\ pc' = "fused"
    /\ UNCHANGED <<candles, rsi, macd, atr, spotPrice, amd, orderBlocks, fvgs,
                   srLevels, liquidityZones, signal, priceActionSignal,
                   spotInsights, newsRisk, newsBias>>
    /\ UNCHANGED otherVars

\* lines 198-202
SpreadModifier ==
    /\ pc = "fused"
    /\ \E ins \in InsightCases : spotInsights' = ins
    /\ hybridSignal' = applySpread(hybridSignal, spotInsights')
    /\ pc' = "spread"
    /\ UNCHANGED <<candles, rsi, macd, atr, spotPrice, amd, orderBlocks, fvgs,
                   srLevels, liquidityZones, signal, priceActionSignal, fused,
                   newsRisk, newsBias>>
    /\ UNCHANGED otherVars

\* lines 204-223
WeeklyRangeModifier ==
    /\ pc = "spread"
    /\ hybridSignal' = applyWeeklyRange(hybridSignal, spotInsights)
    /\ pc' = "weekly"
    /\ UNCHANGED <<candles, rsi, macd, atr, spotPrice, amd, orderBlocks, fvgs,
                   srLevels, liquidityZones, signal, priceActionSignal, fused,
                   spotInsights, newsRisk, newsBias>>
    /\ UNCHANGED otherVars

\* lines 225-230
NewsRiskOverride ==
    /\ pc = "weekly"
    /\ \E av \in BOOLEAN : newsRisk' = [avoid |-> av]
    /\ hybridSignal' = applyNewsRisk(hybridSignal, newsRisk')
    /\ pc' = "news"
    /\ UNCHANGED <<candles, rsi, macd, atr, spotPrice, amd, orderBlocks, fvgs,
                   srLevels, liquidityZones, signal, priceActionSignal, fused,
                   spotInsights, newsBias>>
    /\ UNCHANGED otherVars

\* lines 232-244
FundamentalBias ==
    /\ pc = "news"
    /\ \E b \in NewsBiases : newsBias' = [bias |-> b]
    /\ hybridSignal' = applyNewsBias(hybridSignal, newsBias')
    /\ pc' = "done"
    /\ UNCHANGED <<candles, rsi, macd, atr, spotPrice, amd, orderBlocks, fvgs,
                   srLevels, liquidityZones, signal, priceActionSignal, fused,
                   spotInsights, newsRisk>>
    /\ UNCHANGED otherVars

Next ==
    \/ RunICT
    \/ RunPriceAction
    \/ Combine
    \/ SpreadModifier
    \/ WeeklyRangeModifier
    \/ NewsRiskOverride
    \/ FundamentalBias

Spec == Init /\ [][Next]_vars

----------------------------------------------------------------------------
(* The same handler run on candle windows: lines 170-184                    *)

\* longest run of shaped bars before and after the flat stretch of a window
MaxHead == 2

MaxTail == 2

\* lengths of the flat stretch, around the 20- and 50-bar windows
FlatRuns == {1, 19, 20, 30, 49, 50, 51}

UpBar == Bar(0, 1990 * Dollar, 2015 * Dollar, 1985 * Dollar, 2010 * Dollar)

DownBar == Bar(0, 2010 * Dollar, 2015 * Dollar, 1985 * Dollar, 1990 * Dollar)

SpikeBar == Bar(0, 2000 * Dollar, 2030 * Dollar, 1999 * Dollar, 2001 * Dollar)

ShapedBars == {UpBar, DownBar, SpikeBar}

\* bar i of a window carries time i
Timed(cs) == [i \in 1..Len(cs) |-> [cs[i] EXCEPT !.time = i]]

Window(head, n, tail) ==
    Timed(head \o [i \in 1..n |-> FlatBar(0, BasePrice)] \o tail)

Windows ==
    {Window(head, n, tail) : head \in SeqsUpTo(ShapedBars, MaxHead),
                             n \in FlatRuns,
                             tail \in SeqsUpTo(ShapedBars, MaxTail)}

InitCandles ==
    /\ pc = "start"
    /\ candles \in Windows
    /\ rsi \in {25, 50, 75}
    /\ macd = [histogram |-> 0]
    /\ atr \in AtrValues
    /\ spotPrice \in {candles[Len(candles)].close,
                      candles[Len(candles)].close + 2 * Dollar}
    /\ amd = Regime("TRANSITION", "NEUTRAL")
    /\ orderBlocks = <<>>
    /\ fvgs = <<>>
    /\ srLevels = <<>>
    /\ liquidityZones = <<>>
    /\ signal = NoSignal
    /\ priceActionSignal = NoSignal
    /\ fused = NoSignal
    /\ hybridSignal = NoSignal
    /\ spotInsights = NoInsights
    /\ newsRisk = [avoid |-> FALSE]
    /\ newsBias = [bias |-> "NEUTRAL"]
    /\ OtherIdle

\* lines 170-177
AnalyzeCandles ==
    /\ pc = "start"
    /\ amd' = detectAMD(candles)
    /\ orderBlocks' = detectOrderBlocks(candles)
    /\ fvgs' = detectFVGs(candles)
    /\ srLevels' = detectSRLevels(candles)
    /\ signal' = buildSignal(candles, rsi, macd, atr, amd',
                             orderBlocks', fvgs', srLevels')
    /\ liquidityZones' = detectLiquidityZones(candles)
    /\ pc' = "ict"
    /\ UNCHANGED <<candles, rsi, macd, atr, spotPrice, priceActionSignal, fused,
                   hybridSignal, spotInsights, newsRisk, newsBias>>
    /\ UNCHANGED otherVars

\* line 181
PriceActionOnCandles ==
    /\ pc = "ict"
    /\ priceActionSignal' = generatePriceActionSignal(candles, spotPrice, atr)
    /\ pc' = "pa"
    /\ UNCHANGED <<candles, rsi, macd, atr, spotPrice, amd, orderBlocks, fvgs,
                   srLevels, liquidityZones, signal, fused, hybridSignal,
                   spotInsights, newsRisk, newsBias>>
    /\ UNCHANGED otherVars

NextCandles ==
    \/ AnalyzeCandles
    \/ PriceActionOnCandles
    \/ Combine

SpecCandles == InitCandles /\ [][NextCandles]_vars


----------------------------------------------------------------------------
(* The zone and pattern detectors on series below their windows             *)

\* longest series the detectors are run on
MaxShort == 19

Detectors ==
    {"detectOrderBlocks", "detectFVGs", "detectSRLevels",
     "detectLiquidityZones", "detectCandlestickPatterns",
     "detectChartPatterns"}

\* series of 0..MaxShort bars: repeated bar shapes, a staircase whose bars
\* leave gaps, and a tent whose sixth bar is a swing high
ShortSeries ==
    LET Cycle(motif, n) ==
            Timed([i \in 1..n |-> motif[((i - 1) % Len(motif)) + 1]])
        Step(i) ==
            LET o == BasePrice + i * 30 * Dollar
            IN  Bar(i, o, o + 12 * Dollar, o - 2 * Dollar, o + 10 * Dollar)
        Peak(i) ==
            LET mid == BasePrice + (10 - Abs(i - 6)) * 5 * Dollar
            IN  Bar(i, mid - Dollar, mid + 2 * Dollar, mid - 2 * Dollar,
                    mid + Dollar)
        Motifs == {<<UpBar, DownBar, DownBar, UpBar, UpBar>>,
                   <<DownBar, UpBar>>,
                   <<SpikeBar>>}
    IN  {Cycle(motif, n) : motif \in Motifs, n \in 0..MaxShort}
        \cup {[i \in 1..n |-> Step(i)] : n \in 0..MaxShort}
        \cup {[i \in 1..n |-> Peak(i)] : n \in 0..MaxShort}

InitDetectors ==
    /\ pc = "scan"
    /\ candles \in ShortSeries
    /\ rsi = 50
    /\ macd = [histogram |-> 0]
    /\ atr = 0
    /\ spotPrice = 0
    /\ amd = Regime("TRANSITION", "NEUTRAL")
    /\ orderBlocks = <<>>
    /\ fvgs = <<>>
    /\ srLevels = <<>>
    /\ liquidityZones = <<>>
    /\ signal = NoSignal
    /\ priceActionSignal = NoSignal
    /\ fused = NoSignal
    /\ hybridSignal = NoSignal
    /\ spotInsights = NoInsights
    /\ newsRisk = [avoid |-> FALSE]
    /\ newsBias = [bias |-> "NEUTRAL"]
    /\ OtherIdle

\* one call of detector d on the series; each detector is a pure function
\* of the candles (part_005:536, 611, 696, 751; priceaction.ts:55, 327)
RunDetector(d) ==
    /\ pc = "scan"
    /\ d \notin ran
    /\ ran' = ran \cup {d}
    /\ orderBlocks' = IF d = "detectOrderBlocks"
                      THEN detectOrderBlocks(candles) ELSE orderBlocks
    /\ fvgs' = IF d = "detectFVGs" THEN detectFVGs(candles) ELSE fvgs
    /\ srLevels' = IF d = "detectSRLevels"
                   THEN detectSRLevels(candles) ELSE srLevels
    /\ liquidityZones' = IF d = "detectLiquidityZones"
                         THEN detectLiquidityZones(candles) ELSE liquidityZones
    /\ candlestickPatterns' = IF d = "detectCandlestickPatterns"
                              THEN detectCandlestickPatterns(candles)
                              ELSE candlestickPatterns
    /\ chartShapes' = IF d = "detectChartPatterns"
                      THEN detectChartPatterns(candles) ELSE chartShapes
    /\ UNCHANGED <<pc, candles, rsi, macd, atr, spotPrice, amd, signal,
                   priceActionSignal, fused, hybridSignal, spotInsights,
                   newsRisk, newsBias>>
    /\ UNCHANGED <<repeatVars, answerVars, providerVars, waitlistVars,
                   retryVars>>

NextDetectors == \E d \in Detectors : RunDetector(d)

SpecDetectors == InitDetectors /\ [][NextDetectors]_vars

----------------------------------------------------------------------------
(* The analyze handler from the fetched inputs to the answer, and a second  *)
(* request on the same inputs                                               *)

\* lib/news.ts NewsEvent: the time of the event is kept as minutes from now
NewsEvent(currency, impact, minutes, today) ==
    [Currency |-> currency, Impact |-> impact, minutesUntil |-> minutes,
     today |-> today]

NewsCases ==
    {<<>>,
     <<NewsEvent("USD", "High", 10, TRUE)>>,
     <<NewsEvent("USD", "High", 30, FALSE)>>,
     <<NewsEvent("USD", "High", 10, TRUE), NewsEvent("USD", "High", 200, TRUE)>>,
     <<NewsEvent("USD", "High", 300, TRUE)>>,
     <<NewsEvent("USD", "High", 0 - 30, TRUE)>>,
     <<NewsEvent("EUR", "High", 10, TRUE), NewsEvent("USD", "Medium", 20, TRUE)>>}

\* lib/news.ts:151-212
assessNewsRisk(events) ==
    LET IsHighUSD(e) == e.Currency = "USD" /\ e.Impact = "High"
        highImpactUSD == SelectSeq(events, IsHighUSD)
        Soon(e) == e.minutesUntil > 0 /\ e.minutesUntil <= 4 * 60
        upcomingSoon == SelectSeq(highImpactUSD, Soon)
        Today(e) == e.today /\ IsHighUSD(e)
        today == SelectSeq(events, Today)
    IN  IF Len(upcomingSoon) > 1
        THEN [level |-> "RED", avoid |-> TRUE,
              upcomingCount |-> Len(upcomingSoon)]
        ELSE IF Len(upcomingSoon) = 1
        THEN [level |-> "ORANGE", avoid |-> FALSE, upcomingCount |-> 1]
        ELSE IF Len(today) > 0
        THEN [level |-> "YELLOW", avoid |-> FALSE,
              upcomingCount |-> Len(today)]
        ELSE [level |-> "GREEN", avoid |-> FALSE, upcomingCount |-> 0]

\* part_001:198-244: the four modifiers in the order of the code
Modified(sig, insights, risk, bias) ==
    applyNewsBias(
        applyNewsRisk(
            applyWeeklyRange(applySpread(sig, insights), insights), risk),
        bias)

\* generation calls without the handler's try/catch
NarratedUncaught(outcomes, amdV, sig) ==
    LET TextOf(call, how) ==
            IF how = "text" THEN [kind |-> "generated", by |-> call]
            ELSE [kind |-> "fallbackNarrative", action |-> sig.action,
                  confidence |-> sig.confidence]
    IN  [narrative |-> TextOf("generateGoldNarrative", outcomes[1]),
         deepAnalysis |-> TextOf("generateDeepAnalysis", outcomes[2]),
         escaped |-> "throws" \in {outcomes[1], outcomes[2]}]

\* part_001:246-266: the two generation calls inside the handler's own
\* try/catch; anthropic.ts:86-98 returns response ?? fallback
Narrated(outcomes, amdV, sig) ==
    LET TextOf(call, how) ==
            IF how = "text" THEN [kind |-> "generated", by |-> call]
            ELSE [kind |-> "fallbackNarrative", action |-> sig.action,
                  confidence |-> sig.confidence]
        description == [kind |-> "amd.description", phase |-> amdV.phase]
    IN  IF "throws" \in {outcomes[1], outcomes[2]}
        THEN [narrative |-> description, deepAnalysis |-> description,
              escaped |-> FALSE]
        ELSE [narrative |-> TextOf("generateGoldNarrative", outcomes[1]),
              deepAnalysis |-> TextOf("generateDeepAnalysis", outcomes[2]),
              escaped |-> FALSE]

\* part_001:145-166 and 191-192: everything the request fetches; the candle
\* series are one with an order block, one with a fair value gap, and a
\* quiet 50-bar stretch that ends in a spike
InitHandler ==
    /\ pc = "start"
    /\ candles \in
          {Timed(<<UpBar, DownBar, DownBar, UpBar, UpBar>>),
           Timed(<<FlatBar(0, BasePrice), FlatBar(0, BasePrice + 2 * Dollar),
                   FlatBar(0, BasePrice + 4 * Dollar)>>),
           Window(<<>>, 50, <<SpikeBar>>)}
    /\ rsi \in {25, 50}
    /\ macd = [histogram |-> 0]
    /\ atr \in AtrValues
    /\ spotPrice = candles[Len(candles)].close
    /\ spotInsights \in {NoInsights, Insights("WIDE", WeeklyRange(900)),
                         Insights("NORMAL", WeeklyRange(100))}
    /\ newsBias \in [bias : NewsBiases]
    /\ todayNews \in NewsCases
    /\ amd = Regime("TRANSITION", "NEUTRAL")
    /\ orderBlocks = <<>>
    /\ fvgs = <<>>
    /\ srLevels = <<>>
    /\ liquidityZones = <<>>
    /\ signal = NoSignal
    /\ priceActionSignal = NoSignal
    /\ fused = NoSignal
    /\ hybridSignal = NoSignal
    /\ newsRisk = [avoid |-> FALSE]
    /\ generated = <<>>
    /\ narrative = ""
    /\ deepAnalysis = ""
    /\ response = [status |-> 0]
    /\ ScanIdle /\ RepeatIdle /\ ProviderIdle /\ WaitlistIdle /\ RetryIdle

\* part_001:191 and 198-244
Modify ==
    /\ pc = "fused"
    /\ newsRisk' = assessNewsRisk(todayNews)
    /\ hybridSignal' = Modified(hybridSignal, spotInsights, newsRisk', newsBias)
    /\ pc' = "done"
    /\ UNCHANGED <<candles, rsi, macd, atr, spotPrice, amd, orderBlocks, fvgs,
                   srLevels, liquidityZones, signal, priceActionSignal, fused,
                   spotInsights, newsBias>>
    /\ UNCHANGED otherVars

\* part_001:246-266; a generation call ends with the model's text, with the
\* library's own fallback (anthropic.ts:21 missing key, 43-46 non-OK
\* response, 50-53 caught request error) or with an error that leaves the
\* library, and the second call is made only if the first returned
Narrate ==
    /\ pc = "done"
    /\ \E outcomes \in
             {<<"throws", "notCalled">>}
             \cup {<<first, second>> :
                      first \in {"text", "fallback"},
                      second \in {"text", "fallback", "throws"}} :
          LET texts == Narrated(outcomes, amd, hybridSignal)
          IN  /\ generated' = outcomes
              /\ narrative' = texts.narrative
              /\ deepAnalysis' = texts.deepAnalysis
              /\ pc' = IF texts.escaped THEN "failed" ELSE "narrated"
    /\ UNCHANGED <<candles, rsi, macd, atr, spotPrice, amd, orderBlocks, fvgs,
                   srLevels, liquidityZones, signal, priceActionSignal, fused,
                   hybridSignal, spotInsights, newsRisk, newsBias>>
    /\ UNCHANGED <<todayNews, response>>
    /\ UNCHANGED <<scanVars, repeatVars, providerVars, waitlistVars,
                   retryVars>>

\* part_001:273-306: the answer, or the outer catch
Respond ==
    /\ pc \in {"narrated", "failed"}
    /\ response' = IF pc = "failed"
                   THEN [status |-> 500]
                   ELSE [status |-> 200, signal |-> hybridSignal,
                         narrative |-> narrative,
                         deepAnalysis |-> deepAnalysis]
    /\ pc' = "responded"
    /\ UNCHANGED <<candles, rsi, macd, atr, spotPrice, amd, orderBlocks, fvgs,
                   srLevels, liquidityZones, signal, priceActionSignal, fused,
                   hybridSignal, spotInsights, newsRisk, newsBias>>
    /\ UNCHANGED <<todayNews, generated, narrative, deepAnalysis>>
    /\ UNCHANGED <<scanVars, repeatVars, providerVars, waitlistVars,
                   retryVars>>

\* part_001:133: the handler is entered again with the same fetched inputs;
\* the process keeps whatever the first request left behind
NextRequest ==
    /\ pc = "responded"
    /\ run = 1
    /\ run' = 2
    /\ firstRun' =
          [amd |-> amd, orderBlocks |-> orderBlocks, fvgs |-> fvgs,
           srLevels |-> srLevels, liquidityZones |-> liquidityZones,
           signal |-> signal, priceActionSignal |-> priceActionSignal,
           fused |-> fused, newsRisk |-> newsRisk,
           hybridSignal |-> hybridSignal]
    /\ pc' = "start"
    /\ response' = [status |-> 0]
    /\ UNCHANGED <<candles, rsi, macd, atr, spotPrice, amd, orderBlocks, fvgs,
                   srLevels, liquidityZones, signal, priceActionSignal, fused,
                   hybridSignal, spotInsights, newsRisk, newsBias>>
    /\ UNCHANGED <<todayNews, generated, narrative, deepAnalysis>>
    /\ UNCHANGED <<scanVars, providerVars, waitlistVars,
                   retryVars>>

NextHandler ==
    \/ AnalyzeCandles
    \/ PriceActionOnCandles
    \/ Combine
    \/ Modify
    \/ Narrate
    \/ Respond
    \/ NextRequest

SpecHandler == InitHandler /\ [][NextHandler]_vars

----------------------------------------------------------------------------
(* The candle supplier: lib/twelvedata.ts fetchCandlesWithProvider          *)

\* lines 647-684: the providers in the order of the code
ProviderOrder == <<"goldapi", "finnhub", "alpha_vantage", "marketstack">>

\* lines 647, 659, 668, 677: the provider's key is set, and GoldAPI is asked
\* for the gold symbol only
Applies(p) ==
    /\ p \in configured
    /\ p = "goldapi" => canonical = "XAU/USD"

\* a provider block without its try/catch
AttemptUncaught(how) ==
    CASE how = "candles" -> "return"
      [] how = "empty" -> "continue"
      [] how = "error" -> "reject"

\* lines 648-656 (and the three blocks after it): what one try/catch block
\* leaves the function to do after the provider's call ended as `how`
Attempt(how) ==
    CASE how = "candles" -> "return"
      [] how = "empty" -> "continue"
      [] how = "error" -> "continue"

\* line 644 and the environment: the symbol, the keys that are set, and how
\* each provider's call will end
InitProviders ==
    /\ pc = "goldapi"
    /\ canonical \in {"XAU/USD", "EUR/USD"}
    /\ configured \in SUBSET {ProviderOrder[i] : i \in 1..Len(ProviderOrder)}
    /\ outcome \in [{ProviderOrder[i] : i \in 1..Len(ProviderOrder)}
                       -> {"candles", "empty", "error"}]
    /\ tried = <<>>
    /\ fetched = [provider |-> "none"]
    /\ candles = <<>>
    /\ rsi = 50
    /\ macd = [histogram |-> 0]
    /\ atr = 0
    /\ spotPrice = 0
    /\ amd = Regime("TRANSITION", "NEUTRAL")
    /\ orderBlocks = <<>>
    /\ fvgs = <<>>
    /\ srLevels = <<>>
    /\ liquidityZones = <<>>
    /\ signal = NoSignal
    /\ priceActionSignal = NoSignal
    /\ fused = NoSignal
    /\ hybridSignal = NoSignal
    /\ spotInsights = NoInsights
    /\ newsRisk = [avoid |-> FALSE]
    /\ newsBias = [bias |-> "NEUTRAL"]
    /\ ScanIdle /\ RepeatIdle /\ AnswerIdle /\ WaitlistIdle /\ RetryIdle

\* lines 647-684: the block of the i-th provider
TryProvider(i) ==
    LET p == ProviderOrder[i]
        then == IF ~Applies(p) THEN "continue" ELSE Attempt(outcome[p])
        next == IF i < Len(ProviderOrder) THEN ProviderOrder[i + 1]
                ELSE "synthetic"
    IN  /\ pc = p
        /\ tried' = IF Applies(p) THEN Append(tried, p) ELSE tried
        /\ fetched' = CASE then = "return" -> [provider |-> p]
                        [] then = "continue" -> fetched
                        [] then = "reject" -> [provider |-> "rejected"]
        /\ pc' = IF then = "continue" THEN next ELSE "returned"
        /\ UNCHANGED <<candles, rsi, macd, atr, spotPrice, amd, orderBlocks,
                       fvgs, srLevels, liquidityZones, signal,
                       priceActionSignal, fused, hybridSignal, spotInsights,
                       newsRisk, newsBias>>
        /\ UNCHANGED <<canonical, configured, outcome>>
        /\ UNCHANGED <<scanVars, repeatVars, answerVars, waitlistVars,
                   retryVars>>

\* lines 686-688
Synthetic ==
    /\ pc = "synthetic"
    /\ fetched' = [provider |-> "synthetic"]
    /\ pc' = "returned"
    /\ UNCHANGED <<candles, rsi, macd, atr, spotPrice, amd, orderBlocks, fvgs,
                   srLevels, liquidityZones, signal, priceActionSignal, fused,
                   hybridSignal, spotInsights, newsRisk, newsBias>>
    /\ UNCHANGED <<canonical, configured, outcome, tried>>
    /\ UNCHANGED <<scanVars, repeatVars, answerVars, waitlistVars,
                   retryVars>>

NextProviders ==
    \/ \E i \in 1..Len(ProviderOrder) : TryProvider(i)
    \/ Synthetic

SpecProviders == InitProviders /\ [][NextProviders]_vars

----------------------------------------------------------------------------
(* The waitlist endpoint: pages/api/waitlist.ts, POST requests of one       *)
(* server process on one waitlist file                                      *)

\* number of POST requests in flight
MaxPosts == 3

\* String.prototype.toLowerCase on the letters the requests use; a string is
\* the sequence of its characters
toLowerCase(s) ==
    [i \in 1..Len(s) |-> CASE s[i] = "A" -> "a"
                           [] s[i] = "B" -> "b"
                           [] s[i] = "X" -> "x"
                           [] OTHER -> s[i]]

\* line 124: /^[^\s@]+@[^\s@]+\.[^\s@]+$/
emailRegex(s) ==
    LET ats == {i \in 1..Len(s) : s[i] = "@"}
    IN  /\ \A i \in 1..Len(s) : s[i] # " "
        /\ Cardinality(ats) = 1
        /\ \E a \in ats :
              /\ a > 1
              /\ \E d \in (a + 2)..(Len(s) - 1) : s[d] = "."

\* a lookup that compares the addresses as they are written
emailExistsAsWritten(entries, email) ==
    \E k \in 1..Len(entries) : entries[k].email = email

\* lines 69-72, on the entries of the file
emailExists(entries, email) ==
    \E k \in 1..Len(entries) :
        toLowerCase(entries[k].email) = toLowerCase(email)

\* the file does not exist yet (lines 39-49 return []), and MaxPosts requests
\* have arrived: two spellings of one address, another address, an address
\* with a leading blank, and a body without name
InitWaitlist ==
    /\ pc = "serving"
    /\ waitlist = <<>>
    /\ requests \in
          [1..MaxPosts ->
              {[name |-> n, email |-> e, at |-> "received", status |-> 0,
                referralCode |-> "", emailSent |-> FALSE] :
                  n \in {"Ann"},
                  e \in {<<"a", "@", "x", ".", "i", "o">>,
                         <<"A", "@", "X", ".", "i", "o">>,
                         <<"b", "@", "x", ".", "i", "o">>,
                         <<" ", "a", "@", "x", ".", "i", "o">>}}
              \cup {[name |-> "", email |-> <<"a", "@", "x", ".", "i", "o">>,
                     at |-> "received", status |-> 0, referralCode |-> "",
                     emailSent |-> FALSE]}]
    /\ candles = <<>>
    /\ rsi = 50
    /\ macd = [histogram |-> 0]
    /\ atr = 0
    /\ spotPrice = 0
    /\ amd = Regime("TRANSITION", "NEUTRAL")
    /\ orderBlocks = <<>>
    /\ fvgs = <<>>
    /\ srLevels = <<>>
    /\ liquidityZones = <<>>
    /\ signal = NoSignal
    /\ priceActionSignal = NoSignal
    /\ fused = NoSignal
    /\ hybridSignal = NoSignal
    /\ spotInsights = NoInsights
    /\ newsRisk = [avoid |-> FALSE]
    /\ newsBias = [bias |-> "NEUTRAL"]
    /\ ScanIdle /\ RepeatIdle /\ AnswerIdle /\ ProviderIdle /\ RetryIdle

\* lines 112-160: handlePostRequest up to its first await, which runs without
\* interruption; the referral code is kept as its random part (line 65), the
\* write may fail (lines 53-62), and the reads succeed
handlePostRequest(i) ==
    LET req == requests[i]
        inked == {k \in 1..Len(req.email) : req.email[k] # " "}
        trimmed == IF inked = {} THEN <<>>
                   ELSE SubSeq(req.email, MinOf(inked), MaxOf(inked))
        Answer(status, code) ==
            [requests EXCEPT ![i].at = "answered", ![i].status = status,
                             ![i].referralCode = code]
        found == CHOOSE k \in 1..Len(waitlist) :
                     toLowerCase(waitlist[k].email) = toLowerCase(req.email)
    IN  /\ req.at = "received"
        /\ IF req.name = "" \/ req.email = <<>>
           THEN requests' = Answer(400, "") /\ waitlist' = waitlist
           ELSE IF ~emailRegex(req.email)
           THEN requests' = Answer(400, "") /\ waitlist' = waitlist
           ELSE IF emailExists(waitlist, req.email)
           THEN /\ requests' = Answer(200, waitlist[found].referralCode)
                /\ waitlist' = waitlist
           ELSE \E random \in {"K3F0", "Z9QA"}, saved \in BOOLEAN :
                   IF saved
                   THEN /\ waitlist' =
                              Append(waitlist,
                                     [id |-> i, name |-> req.name,
                                      email |-> toLowerCase(trimmed),
                                      referralCode |-> random])
                        /\ requests' =
                              [requests EXCEPT ![i].at = "sending",
                                               ![i].referralCode = random]
                   ELSE requests' = Answer(500, "") /\ waitlist' = waitlist
        /\ UNCHANGED pipelineVars
        /\ UNCHANGED <<scanVars, repeatVars, answerVars, providerVars,
                   retryVars>>

\* lines 162-185: the welcome email has been sent or not, and the answer
sendWaitlistEmail(i) ==
    /\ requests[i].at = "sending"
    /\ \E emailSent \in BOOLEAN :
          requests' = [requests EXCEPT ![i].at = "answered",
                                       ![i].status = 201,
                                       ![i].emailSent = emailSent]
    /\ UNCHANGED waitlist
    /\ UNCHANGED pipelineVars
    /\ UNCHANGED <<scanVars, repeatVars, answerVars, providerVars,
                   retryVars>>

NextWaitlist ==
    \E i \in 1..MaxPosts : handlePostRequest(i) \/ sendWaitlistEmail(i)

SpecWaitlist == InitWaitlist /\ [][NextWaitlist]_vars

----------------------------------------------------------------------------
(* detectAMD on windows whose phase conditions overlap                      *)

\* windows of a prefix and a 20-bar session: the prefix is absent, wide (the
\* 50-bar range is several times the session's) or level; the session falls,
\* rises or stays level, with or without a bar with a long upper wick among
\* its last ten; the last bar closes where it does, at its low or at its high
RegimeWindows ==
    LET Step(kind, k) ==
            LET mid == CASE kind = "falling" -> BasePrice + (20 - k) * 2 * Dollar
                         [] kind = "rising" -> BasePrice + k * 2 * Dollar
                         [] kind = "level" -> BasePrice
            IN  Bar(0, mid + Dollar \div 2, mid + Dollar, mid - Dollar,
                    mid - Dollar \div 2)
        Wicked(b) ==
            Bar(0, b.close + Dollar \div 5, b.high + 2 * Dollar, b.low, b.close)
        Session(kind, wick) ==
            [k \in 1..20 |-> IF wick /\ k = 16 THEN Wicked(Step(kind, k))
                             ELSE Step(kind, k)]
        Closing(cs, at) ==
            LET last == cs[Len(cs)]
            IN  [cs EXCEPT ![Len(cs)].close =
                    CASE at = "asIs" -> last.close
                      [] at = "low" -> last.low
                      [] at = "high" -> last.high]
        Prefix(kind, n) ==
            [k \in 1..n |->
                IF kind = "wide"
                THEN Bar(0, BasePrice, BasePrice + 100 * Dollar,
                         BasePrice - 100 * Dollar, BasePrice)
                ELSE FlatBar(0, BasePrice + 20 * Dollar)]
    IN  {Timed(Prefix(p, n) \o Closing(Session(kind, wick), at)) :
            p \in {"wide", "level"}, n \in {0, 10, 30, 40},
            kind \in {"falling", "rising", "level"}, wick \in BOOLEAN,
            at \in {"asIs", "low", "high"}}

InitRegime ==
    /\ pc = "start"
    /\ candles \in RegimeWindows
    /\ rsi = 50
    /\ macd = [histogram |-> 0]
    /\ atr = 0
    /\ spotPrice = 0
    /\ amd = Regime("TRANSITION", "NEUTRAL")
    /\ orderBlocks = <<>>
    /\ fvgs = <<>>
    /\ srLevels = <<>>
    /\ liquidityZones = <<>>
    /\ signal = NoSignal
    /\ priceActionSignal = NoSignal
    /\ fused = NoSignal
    /\ hybridSignal = NoSignal
    /\ spotInsights = NoInsights
    /\ newsRisk = [avoid |-> FALSE]
    /\ newsBias = [bias |-> "NEUTRAL"]
    /\ OtherIdle

\* part_001:170
ClassifyRegime ==
    /\ pc = "start"
    /\ amd' = detectAMD(candles)
    /\ pc' = "classified"
    /\ UNCHANGED <<candles, rsi, macd, atr, spotPrice, orderBlocks, fvgs,
                   srLevels, liquidityZones, signal, priceActionSignal, fused,
                   hybridSignal, spotInsights, newsRisk, newsBias>>
    /\ UNCHANGED otherVars

SpecRegime == InitRegime /\ [][ClassifyRegime]_vars

----------------------------------------------------------------------------
(* The zone detectors on series with several swings, gaps and setups        *)

\* zigzags that turn every sixth bar (so each turn is a swing of five bars on
\* either side), cut at several lengths; a gap whose midpoint a later bar
\* crosses before the latest bar closes above it; and two falling bars
\* followed by rising bars of the same size
ZoneSeries ==
    LET Zigzag(turns, half, n) ==
            [i \in 1..n |->
                LET q == i \div 6
                    r == i % 6
                    mid == BasePrice + turns[q + 1] * Dollar
                           + ((turns[q + 2] - turns[q + 1]) * Dollar * r) \div 6
                IN  Bar(i, mid - Dollar, mid + half * Dollar,
                        mid - half * Dollar, mid + Dollar)]
        wide == <<0, 100, 0 - 100, 105, 0 - 95, 150, 0 - 150, 200, 0 - 200,
                  250, 0, 0>>
        tight == <<0, 6, 0 - 6, 6, 0 - 6, 12, 0 - 12, 6, 0 - 6, 6, 0, 0>>
        crossed == <<FlatBar(1, BasePrice),
                     FlatBar(2, BasePrice + 2 * Dollar),
                     FlatBar(3, BasePrice + 4 * Dollar),
                     Bar(4, BasePrice + 4 * Dollar, BasePrice + 4 * Dollar,
                         BasePrice + Dollar, BasePrice + 4 * Dollar),
                     FlatBar(5, BasePrice + 4 * Dollar)>>
    IN  {Zigzag(wide, 2, n) : n \in {17, 35, 60}}
        \cup {Zigzag(tight, 3, n) : n \in {11, 17, 35, 60}}
        \cup {crossed, Timed(<<UpBar, DownBar, DownBar, UpBar, UpBar>>)}

InitZones ==
    /\ pc = "scan"
    /\ candles \in ZoneSeries
    /\ rsi = 50
    /\ macd = [histogram |-> 0]
    /\ atr = 0
    /\ spotPrice = 0
    /\ amd = Regime("TRANSITION", "NEUTRAL")
    /\ orderBlocks = <<>>
    /\ fvgs = <<>>
    /\ srLevels = <<>>
    /\ liquidityZones = <<>>
    /\ signal = NoSignal
    /\ priceActionSignal = NoSignal
    /\ fused = NoSignal
    /\ hybridSignal = NoSignal
    /\ spotInsights = NoInsights
    /\ newsRisk = [avoid |-> FALSE]
    /\ newsBias = [bias |-> "NEUTRAL"]
    /\ OtherIdle

SpecZones == InitZones /\ [][NextDetectors]_vars

----------------------------------------------------------------------------
(* lib/twelvedata.ts: fetchJsonWithRetry                                    *)

\* line 13
RETRYABLE_STATUS == {408, 429, 500, 502, 503, 504}

\* a number as a template literal prints it
ToChars(n) ==
    LET digit == <<"0", "1", "2", "3", "4", "5", "6", "7", "8", "9">>
        F[k \in Nat] == IF k < 10 THEN <<digit[k + 1]>>
                        ELSE F[k \div 10] \o <<digit[(k % 10) + 1]>>
    IN  F[n]

\* lines 205-216: an abort, or a message that contains "fetch failed",
\* "network" or a blank followed by a retryable status code
isRetryableError(error) ==
    LET includes(s, t) ==
            \E i \in 0..(Len(s) - Len(t)) : SubSeq(s, i + 1, i + Len(t)) = t
    IN  \/ error.name = "AbortError"
        \/ includes(error.message, <<"f", "e", "t", "c", "h", " ", "f", "a",
                                     "i", "l", "e", "d">>)
        \/ includes(error.message, <<"n", "e", "t", "w", "o", "r", "k">>)
        \/ \E code \in RETRYABLE_STATUS :
              includes(error.message, <<" ">> \o ToChars(code))

\* what one fetch can meet: a response with a status and a JSON body, a
\* response whose body is not JSON (res.json() rejects with a SyntaxError that
\* names the position of the unexpected token), the abort of the timeout, or
\* a failed connection
Replies ==
    LET Unexpected(at) ==
            [name |-> "SyntaxError",
             message |->
                   <<"U", "n", "e", "x", "p", "e", "c", "t", "e", "d", " ",
                     "t", "o", "k", "e", "n", " ", "<", " ", "i", "n", " ",
                     "J", "S", "O", "N", " ", "a", "t", " ", "p", "o", "s",
                     "i", "t", "i", "o", "n", " ">>
                   \o ToChars(at)]
    IN  {[kind |-> "response", status |-> s, rejects |-> FALSE]
            : s \in {200, 401, 404} \cup RETRYABLE_STATUS}
        \cup {[kind |-> "response", status |-> 200, rejects |-> TRUE,
               error |-> Unexpected(at)] : at \in {0, 500}}
        \cup {[kind |-> "timeout",
               error |-> [name |-> "AbortError",
                          message |->
                                <<"T", "h", "i", "s", " ", "o", "p", "e",
                                  "r", "a", "t", "i", "o", "n", " ", "w",
                                  "a", "s", " ", "a", "b", "o", "r", "t",
                                  "e", "d">>]],
              [kind |-> "network",
               error |-> [name |-> "TypeError",
                          message |-> <<"f", "e", "t", "c", "h", " ",
                                        "f", "a", "i", "l", "e", "d">>]]}

\* line 12: PROVIDER_MAX_RETRIES is clamped to 0..3; line 220: attempt = 0
InitRetry ==
    /\ pc = "fetching"
    /\ maxRetries \in 0..3
    /\ attempt = 0
    /\ replies = <<>>
    /\ lastError = [name |-> "none"]
    /\ returned = [kind |-> "none"]
    /\ candles = <<>>
    /\ rsi = 50
    /\ macd = [histogram |-> 0]
    /\ atr = 0
    /\ spotPrice = 0
    /\ amd = Regime("TRANSITION", "NEUTRAL")
    /\ orderBlocks = <<>>
    /\ fvgs = <<>>
    /\ srLevels = <<>>
    /\ liquidityZones = <<>>
    /\ signal = NoSignal
    /\ priceActionSignal = NoSignal
    /\ fused = NoSignal
    /\ hybridSignal = NoSignal
    /\ spotInsights = NoInsights
    /\ newsRisk = [avoid |-> FALSE]
    /\ newsBias = [bias |-> "NEUTRAL"]
    /\ ScanIdle /\ RepeatIdle /\ AnswerIdle /\ ProviderIdle /\ WaitlistIdle

\* lines 221-237: one pass of the loop body up to the sleep
Fetch ==
    /\ pc = "fetching"
    /\ \E r \in Replies :
          LET ok == r.kind = "response" /\ r.status >= 200 /\ r.status <= 299
              error == IF r.kind # "response" THEN r.error
                       ELSE IF ~ok
                       THEN [name |-> "Error",
                             message |-> <<"H", "T", "T", "P", " ">>
                                         \o ToChars(r.status)]
                       ELSE r.error
          IN  /\ replies' = Append(replies, r)
              /\ IF ok /\ ~r.rejects
                 THEN /\ returned' = [kind |-> "body", reply |-> Len(replies')]
                      /\ pc' = "returned"
                      /\ UNCHANGED lastError
                 ELSE /\ lastError' = error
                      /\ IF attempt < maxRetries /\ isRetryableError(error)
                         THEN pc' = "sleeping" /\ UNCHANGED returned
                         ELSE /\ pc' = "thrown"
                              /\ returned' = [kind |-> "throw", error |-> error]
    /\ UNCHANGED <<maxRetries, attempt>>
    /\ UNCHANGED <<candles, rsi, macd, atr, spotPrice, amd, orderBlocks, fvgs,
                   srLevels, liquidityZones, signal, priceActionSignal, fused,
                   hybridSignal, spotInsights, newsRisk, newsBias>>
    /\ UNCHANGED <<scanVars, repeatVars, answerVars, providerVars, waitlistVars>>

\* lines 220 and 234: after the sleep the counter goes up and the loop test
\* decides between another pass and the throw of line 240
Sleep ==
    /\ pc = "sleeping"
    /\ attempt' = attempt + 1
    /\ IF attempt' <= maxRetries
       THEN pc' = "fetching" /\ UNCHANGED returned
       ELSE pc' = "thrown" /\ returned' = [kind |-> "throw", error |-> lastError]
    /\ UNCHANGED <<maxRetries, replies, lastError>>
    /\ UNCHANGED <<candles, rsi, macd, atr, spotPrice, amd, orderBlocks, fvgs,
                   srLevels, liquidityZones, signal, priceActionSignal, fused,
                   hybridSignal, spotInsights, newsRisk, newsBias>>
    /\ UNCHANGED <<scanVars, repeatVars, answerVars, providerVars, waitlistVars>>

NextRetry ==
    \/ Fetch
    \/ Sleep

\* the awaited fetch settles (the timer of line 222 aborts it at the latest)
\* and the sleep ends
SpecRetry == InitRetry /\ [][NextRetry]_vars /\ WF_vars(NextRetry)

----------------------------------------------------------------------------
(* Properties of the analyze pipeline                                       *)

\* combineSignals has returned
Fused == pc \in {"fused", "spread", "weekly", "news", "done"}

\* both builders have a direction and the directions differ
Conflicting ==
    /\ Directional(signal.action)
    /\ Directional(priceActionSignal.action)
    /\ signal.action # priceActionSignal.action

\* both builders have the same direction
Agreeing ==
    /\ Directional(signal.action)
    /\ signal.action = priceActionSignal.action

\* C1: whatever the two builders, the spread quality, the weekly position,
\* the news-risk flag and the news bias are, the signal left after fusion and
\* the four context modifiers has a confidence between 0 and 95, and of at
\* least 20 when its action is BUY or SELL.
C1_ConfidenceBounded ==
    pc = "done" =>
        /\ hybridSignal.confidence >= 0
        /\ hybridSignal.confidence <= 95 * Pt
        /\ (Directional(hybridSignal.action)
                => hybridSignal.confidence >= 20 * Pt)

\* a trade that three penalties in a row have pushed down onto the floor
C1_Witness ==
    /\ pc = "done"
    /\ Directional(hybridSignal.action)
    /\ hybridSignal.confidence = 20 * Pt
    /\ fused.confidence - 33 * Pt < 20 * Pt
    /\ spotInsights.spreadQuality = "WIDE"
    /\ newsBias.bias # "NEUTRAL"

\* C2: when the news-risk assessment says avoid, the final signal is WAIT,
\* whatever the fused action, spread quality, weekly position and news bias.
C2_AvoidForcesWait ==
    (pc = "done" /\ newsRisk.avoid) => hybridSignal.action = "WAIT"

\* a fused BUY that the news block has turned into WAIT
C2_Witness ==
    /\ pc = "done"
    /\ newsRisk.avoid
    /\ fused.action = "BUY"
    /\ newsBias.bias = "BULLISH_GOLD"
    /\ hybridSignal.action = "WAIT"

\* C3: when the two builders point in opposite directions, combineSignals
\* returns WAIT with half the smaller of the two confidences and appends a
\* conflict warning naming both actions; BUY at 70 against SELL at 70 gives
\* WAIT at no more than 35.
C3_ConflictForcesWait ==
    (Fused /\ Conflicting) =>
        /\ fused.action = "WAIT"
        /\ fused.confidence * 2
              = Min2(signal.confidence, priceActionSignal.confidence)
        /\ Len(fused.confluences) = Len(signal.confluences) + 1
        /\ fused.confluences[Len(fused.confluences)]
              = Note("SIGNAL_CONFLICT", 0, signal.action,
                     priceActionSignal.action)
        /\ (signal.confidence = 70 * Pt /\ priceActionSignal.confidence = 70 * Pt
                => fused.confidence <= 35 * Pt)

\* primary BUY at 70 against secondary SELL at 70
C3_Witness ==
    /\ pc = "fused"
    /\ signal.action = "BUY" /\ signal.confidence = 70 * Pt
    /\ priceActionSignal.action = "SELL"
    /\ priceActionSignal.confidence = 70 * Pt
    /\ fused.action = "WAIT" /\ fused.confidence = 35 * Pt

\* C4: when exactly one builder waits, combineSignals returns the other
\* builder's action and levels with 0.8 times that builder's confidence,
\* whichever of the two it is that waits.
C4_AbstainDiscounts ==
    Fused =>
        /\ (signal.action = "WAIT" /\ Directional(priceActionSignal.action)) =>
              /\ fused.action = priceActionSignal.action
              /\ fused.confidence * 10 = priceActionSignal.confidence * 8
              /\ fused.entry = priceActionSignal.entry
              /\ fused.tp1 = priceActionSignal.takeProfit1
              /\ fused.stopLoss = priceActionSignal.stopLoss
        /\ (priceActionSignal.action = "WAIT" /\ Directional(signal.action)) =>
              /\ fused.action = signal.action
              /\ fused.confidence * 10 = signal.confidence * 8
              /\ fused.entry = signal.entry
              /\ fused.tp1 = signal.tp1
              /\ fused.stopLoss = signal.stopLoss

\* C5: when the two builders agree on a direction, combineSignals returns it
\* with confidence min(95, 0.6 primary + 0.4 secondary) and with entry, tp1
\* and stopLoss the arithmetic means of the builders' values; BUY at 70 with
\* BUY at 70 gives BUY at exactly 70.
C5_AgreementBlends ==
    (Fused /\ Agreeing) =>
        /\ fused.action = signal.action
        /\ fused.confidence * 10
              = Min2(950 * Pt, signal.confidence * 6
                               + priceActionSignal.confidence * 4)
        /\ fused.entry * 2 = signal.entry + priceActionSignal.entry
        /\ fused.tp1 * 2 = signal.tp1 + priceActionSignal.takeProfit1
        /\ fused.stopLoss * 2 = signal.stopLoss + priceActionSignal.stopLoss
        /\ (signal.confidence = 70 * Pt /\ priceActionSignal.confidence = 70 * Pt
                => fused.confidence = 70 * Pt)

\* two builders that agree from different prices and different confidences
C5_Witness ==
    /\ pc = "fused"
    /\ Agreeing
    /\ signal.entry # priceActionSignal.entry
    /\ signal.confidence # priceActionSignal.confidence
    /\ atr > 0
    /\ fused.action = signal.action

\* C6: through the spread, weekly-range, news-risk and fundamental-bias
\* steps a signal that is WAIT stays WAIT, and each step leaves either the
\* fused action or WAIT, never a direction the fused signal did not have.
C6_WaitIsAbsorbing ==
    [][Fused =>
         /\ (hybridSignal.action = "WAIT" => hybridSignal'.action = "WAIT")
         /\ hybridSignal'.action \in {fused'.action, "WAIT"}]_vars

\* a fused BUY blocked by the news and then met by a confirming bias
C6_Witness ==
    /\ pc = "done"
    /\ fused.action = "BUY"
    /\ newsRisk.avoid
    /\ newsBias.bias = "BULLISH_GOLD"
    /\ hybridSignal.action = "WAIT"
    /\ hybridSignal.confidence <= 25 * Pt


\* the candle window is fifty identical bars at 2000
FlatFifty == candles = Window(<<>>, 50, <<>>)

\* C7: on fifty identical bars at 2000 with rsi 50 and a zero MACD,
\* detectAMD returns TRANSITION, the order-block, fair-value-gap,
\* support/resistance and liquidity detectors return empty lists, buildSignal
\* and generatePriceActionSignal return WAIT, and combineSignals returns WAIT.
C7_FlatWindowWaits ==
    (pc = "fused" /\ FlatFifty /\ rsi = 50 /\ macd.histogram = 0) =>
        /\ amd.phase = "TRANSITION"
        /\ Len(orderBlocks) = 0
        /\ Len(fvgs) = 0
        /\ Len(srLevels) = 0
        /\ Len(liquidityZones) = 0
        /\ signal.action = "WAIT"
        /\ priceActionSignal.action = "WAIT"
        /\ fused.action = "WAIT"

\* the last-20 or the last-50 range of the window has zero width
ZeroWidth ==
    \/ MaxOf(Highs(LastN(candles, 20))) = MinOf(Lows(LastN(candles, 20)))
    \/ MaxOf(Highs(LastN(candles, 50))) = MinOf(Lows(LastN(candles, 50)))

\* C8: on a window whose last-20 or last-50 range has zero width, detectAMD
\* falls back to phase TRANSITION and bias NEUTRAL.
C8_ZeroWidthIsNeutral ==
    (pc # "start" /\ ZeroWidth) =>
        /\ amd.phase = "TRANSITION"
        /\ amd.bias = "NEUTRAL"

\* rr2 > rr1 > 0 on a signal
Ordered(sig) == RatioGT(sig.rr2, sig.rr1) /\ RatioPositive(sig.rr1)

\* C9: every BUY or SELL signal has rr2 > rr1 > 0, as returned by
\* buildSignal and as returned by combineSignals in each directional branch.
C9_RewardRatiosOrdered ==
    /\ (pc # "start" /\ Directional(signal.action)) => Ordered(signal)
    /\ (Fused /\ Directional(fused.action)) => Ordered(fused)

\* the last close of the series handed to buildSignal
LastClose == candles[Len(candles)].close

\* the stop sits dist against the direction, the targets a, b, c along it
LevelsAt(sig, dist, a, b, c) ==
    IF sig.action = "BUY"
    THEN /\ sig.stopLoss = sig.entry - dist
         /\ sig.tp1 = sig.entry + a
         /\ sig.tp2 = sig.entry + b
         /\ sig.tp3 = sig.entry + c
    ELSE /\ sig.stopLoss = sig.entry + dist
         /\ sig.tp1 = sig.entry - a
         /\ sig.tp2 = sig.entry - b
         /\ sig.tp3 = sig.entry - c

\* C10, as stated: buildSignal enters at the last close, stops 1.5 atr
\* against the direction and sets tp1, tp2, tp3 at 2, 3 and 4 atr along it.
C10_TargetsInVolatilities ==
    (pc # "start" /\ Directional(signal.action)) =>
        /\ signal.entry = LastClose
        /\ signal.stopLoss * 2 = 2 * signal.entry
              + (IF signal.action = "BUY" THEN -3 ELSE 3) * atr
        /\ LevelsAt(signal, Abs(signal.entry - signal.stopLoss),
                    2 * atr, 3 * atr, 4 * atr)

\* C10, amended: buildSignal enters at the last close, stops 1.5 atr against
\* the direction and sets tp1, tp2, tp3 at 2, 3 and 4 stop distances along
\* it, which is 3, 4.5 and 6 atr.
C10_TargetsInStopDistances ==
    (pc # "start" /\ Directional(signal.action)) =>
        /\ signal.entry = LastClose
        /\ signal.stopLoss * 2 = 2 * signal.entry
              + (IF signal.action = "BUY" THEN -3 ELSE 3) * atr
        /\ LevelsAt(signal, Abs(signal.entry - signal.stopLoss),
                    3 * atr, (9 * atr) \div 2, 6 * atr)
        /\ 2 * Abs(signal.tp2 - signal.entry) = 9 * atr

\* a SELL from the higher close with its first target three atr below
C10_Witness ==
    /\ pc = "ict"
    /\ signal.action = "SELL"
    /\ atr > 0
    /\ LastClose = BasePrice + 4 * Dollar
    /\ signal.entry = LastClose
    /\ signal.tp1 = signal.entry - 3 * atr


\* the oversold reversal: rsi 25, rising MACD, bullish regime, exactly one
\* aligned order block, a strong one, and no other aligned zone
CleanOversold ==
    /\ pc # "start"
    /\ rsi = 25
    /\ macd.histogram > 0
    /\ amd.bias = "BULLISH"
    /\ amd.strength \in {40, 60, 70, 75}
    /\ FilterCount(orderBlocks, LAMBDA ob : ob.type = "BULLISH") = 1
    /\ FilterCount(orderBlocks,
                   LAMBDA ob : ob.type = "BULLISH" /\ ob.strength = "STRONG") = 1
    /\ FilterCount(fvgs, LAMBDA g : g.type = "BULLISH") = 0
    /\ FilterCount(srLevels, LAMBDA sr : sr.type = "SUPPORT") = 0

\* stopLoss < entry < tp1 < tp2 < tp3
LadderRises(sig) ==
    /\ sig.stopLoss < sig.entry
    /\ sig.entry < sig.tp1
    /\ sig.tp1 < sig.tp2
    /\ sig.tp2 < sig.tp3

\* C11, as stated: in the oversold reversal buildSignal returns BUY with a
\* confidence between 75 and 85 and stopLoss < entry < tp1 < tp2 < tp3.
C11_OversoldReversalAsStated ==
    CleanOversold =>
        /\ signal.action = "BUY"
        /\ signal.confidence >= 75 * Pt
        /\ signal.confidence <= 85 * Pt
        /\ LadderRises(signal)

\* C11, amended: in the oversold reversal buildSignal returns BUY with a
\* confidence between 91 and 95 (91 at regime strength 40, 95 at 60, 70 and
\* 75), and stopLoss <= entry <= tp1 <= tp2 <= tp3, strictly when atr > 0
\* and with all five levels equal when atr = 0.
C11_OversoldReversal ==
    CleanOversold =>
        /\ signal.action = "BUY"
        /\ signal.confidence >= 91 * Pt
        /\ signal.confidence <= 95 * Pt
        /\ (amd.strength = 40 <=> signal.confidence = 91 * Pt)
        /\ (amd.strength > 40 => signal.confidence = 95 * Pt)
        /\ (atr > 0 => LadderRises(signal))
        /\ (atr = 0 => /\ signal.stopLoss = signal.entry
                       /\ signal.tp1 = signal.entry
                       /\ signal.tp2 = signal.entry
                       /\ signal.tp3 = signal.entry)

\* the oversold reversal in a transition regime, next to a bearish block
C11_Witness ==
    /\ pc = "ict"
    /\ CleanOversold
    /\ amd.strength = 40
    /\ Len(orderBlocks) = 2
    /\ atr > 0
    /\ signal.action = "BUY"
    /\ signal.confidence = 91 * Pt

\* C12: buildSignal returns BUY whenever rsi < 30 and SELL whenever
\* rsi > 70, whatever the MACD histogram, the regime bias and the zone lists
\* are; the later steps only add confluences and confidence to the 65 the
\* oscillator extreme starts from.
C12_ExtremeDecides ==
    pc # "start" =>
        /\ (rsi < 30 =>
               /\ signal.action = "BUY"
               /\ Head(signal.confluences) = Note("RSI_OVERSOLD", 0, "", "")
               /\ signal.confidence >= 65 * Pt)
        /\ (rsi > 70 =>
               /\ signal.action = "SELL"
               /\ Head(signal.confluences) = Note("RSI_OVERBOUGHT", 0, "", "")
               /\ signal.confidence >= 65 * Pt)

\* an oversold BUY against a falling MACD, a bearish regime and a bearish gap
C12_Witness ==
    /\ pc = "ict"
    /\ rsi < 30
    /\ amd.bias = "BEARISH"
    /\ Len(fvgs) = 1
    /\ fvgs[1].type = "BEARISH"
    /\ signal.action = "BUY"
    /\ Len(signal.confluences) = 2

\* the confidence the spread and weekly-range modifiers leave
AfterWeekly ==
    applyWeeklyRange(applySpread(fused, spotInsights), spotInsights).confidence

\* C19: the modifiers run in the order spread, weekly range, news risk,
\* fundamental bias: when avoid is set on a fused BUY or SELL the final
\* action is WAIT and the final confidence is min(25, c), c being the
\* confidence the spread and weekly-range modifiers left, and the
\* fundamental-bias step after the block changes neither.
C19_BlockCapsAfterWeekly ==
    /\ (pc \in {"news", "done"} /\ newsRisk.avoid /\ Directional(fused.action)) =>
           /\ hybridSignal.action = "WAIT"
           /\ hybridSignal.confidence = Min2(25 * Pt, AfterWeekly)
    /\ (pc = "weekly" /\ Directional(fused.action)) =>
           hybridSignal.confidence = AfterWeekly

\* a blocked SELL that a conflicting bias would have pushed down to 20
C19_Witness ==
    /\ pc = "done"
    /\ newsRisk.avoid
    /\ fused.action = "SELL"
    /\ spotInsights.spreadQuality = "WIDE"
    /\ newsBias.bias = "BULLISH_GOLD"
    /\ AfterWeekly > 25 * Pt
    /\ hybridSignal.confidence = 25 * Pt

----------------------------------------------------------------------------
(* Properties of the detectors on short series                              *)

\* the fewest bars on which each detector's scan runs at least once: the loop
\* bounds of part_005:614, 699, 759 and 586, and the guards of
\* priceaction.ts:58 and 330
MinimumWindow ==
    [detectOrderBlocks |-> 5, detectFVGs |-> 3, detectSRLevels |-> 11,
     detectLiquidityZones |-> 11, detectCandlestickPatterns |-> 3,
     detectChartPatterns |-> 20]

\* what detector d returned
Detected(d) ==
    CASE d = "detectOrderBlocks" -> orderBlocks
      [] d = "detectFVGs" -> fvgs
      [] d = "detectSRLevels" -> srLevels
      [] d = "detectLiquidityZones" -> liquidityZones
      [] d = "detectCandlestickPatterns" -> candlestickPatterns
      [] d = "detectChartPatterns" -> chartShapes

\* C13: every zone and pattern detector that has run on a series shorter than
\* its minimum window, down to the empty series, has returned the empty list
C13_ShortSeriesYieldNothing ==
    \A d \in ran : Len(candles) < MinimumWindow[d] => Detected(d) = <<>>

\* all six detectors have run on a two-bar series that leaves a gap and
\* each has returned the empty list
C13_Witness ==
    /\ pc = "scan"
    /\ ran = Detectors
    /\ Len(candles) = 2
    /\ candles[1].high < candles[2].low
    /\ \A d \in Detectors : Detected(d) = <<>>

----------------------------------------------------------------------------
(* Properties of the whole request                                          *)

ImminentNews ==
    \E i \in 1..Len(todayNews) :
        /\ todayNews[i].Currency = "USD"
        /\ todayNews[i].Impact = "High"
        /\ todayNews[i].minutesUntil > 0
        /\ todayNews[i].minutesUntil <= 30

\* C15: with a high-impact USD event within the next 30 minutes the risk
\* assessment says avoid and the final action is WAIT
C15_ImminentNewsBlocks ==
    pc \in {"done", "narrated", "responded"} /\ ImminentNews =>
        newsRisk.avoid /\ hybridSignal.action = "WAIT"

\* a generation call failed: the library fell back or an error left it
GenerationFailed ==
    generated # <<>> /\ {generated[1], generated[2]} \cap {"fallback", "throws"} # {}

\* C17: once the handler has answered, the status is 200 and the signal in
\* the answer is the one the modifiers left; every failed generation shows as
\* a fallback text (the library's fallbackNarrative or the regime description,
\* which then stands for both texts), never as an error
C17_NarrativeFailureIsAbsorbed ==
    pc = "responded" =>
       /\ response.status = 200
       /\ response.signal = hybridSignal
       /\ hybridSignal = Modified(fused, spotInsights,
                                  assessNewsRisk(todayNews), newsBias)
       /\ response.narrative = narrative
       /\ response.deepAnalysis = deepAnalysis
       /\ generated[1] = "text" /\ generated[2] # "throws"
             <=> narrative.kind = "generated"
       /\ generated[1] = "fallback" /\ generated[2] # "throws"
             <=> narrative.kind = "fallbackNarrative"
       /\ generated[2] = "fallback" <=> deepAnalysis.kind = "fallbackNarrative"
       /\ "throws" \in {generated[1], generated[2]}
             <=> /\ narrative.kind = "amd.description"
                 /\ deepAnalysis = narrative
                 /\ narrative.phase = amd.phase

\* the first text was generated, the second call threw, and the answer is
\* 200 with a BUY signal and the regime description as both texts
C17_Witness ==
    /\ pc = "responded"
    /\ generated = <<"text", "throws">>
    /\ GenerationFailed
    /\ response.status = 200
    /\ response.signal.action = "BUY"
    /\ response.narrative.kind = "amd.description"

----------------------------------------------------------------------------
(* Properties of the candle supplier                                        *)

\* the positions, in the fixed order, of the providers that are asked at all
Asked == {i \in 1..Len(ProviderOrder) : Applies(ProviderOrder[i])}

\* the positions of the providers that are asked and deliver candles
Delivering == {i \in Asked : outcome[ProviderOrder[i]] = "candles"}

\* the providers at the positions of S, in the fixed order
InOrder(S) == SelectSeq(ProviderOrder, LAMBDA p : \E i \in S : ProviderOrder[i] = p)

\* C16: the call never rejects; it asks the configured providers in the order
\* GoldAPI (gold symbol only), Finnhub, Alpha Vantage, Marketstack and stops
\* at the first that delivers candles, whose label it returns; it returns
\* 'synthetic' exactly when no provider that was asked delivered candles
C16_FirstDeliveringProviderWins ==
    /\ fetched.provider # "rejected"
    /\ \E S \in SUBSET Asked : tried = InOrder(S)
    /\ pc = "returned" =>
          /\ fetched.provider = "synthetic" <=> Delivering = {}
          /\ Delivering # {} =>
                LET first == CHOOSE i \in Delivering :
                                 \A j \in Delivering : i <= j
                IN  /\ fetched.provider = ProviderOrder[first]
                    /\ tried = InOrder({i \in Asked : i <= first})
          /\ Delivering = {} => tried = InOrder(Asked)

\* GoldAPI threw, Finnhub has no key, Alpha Vantage returned no candles and
\* Marketstack delivered
C16_Witness ==
    /\ pc = "returned"
    /\ canonical = "XAU/USD"
    /\ configured = {"goldapi", "alpha_vantage", "marketstack"}
    /\ outcome["goldapi"] = "error"
    /\ outcome["alpha_vantage"] = "empty"
    /\ tried = <<"goldapi", "alpha_vantage", "marketstack">>
    /\ fetched.provider = "marketstack"

----------------------------------------------------------------------------
(* Properties of the waitlist endpoint                                      *)

----------------------------------------------------------------------------
(* Properties of detectAMD                                                  *)

\* the session (last 20 bars) is narrower than half the 50-bar range
Consolidating ==
    LET last50 == LastN(candles, 50)
        recent == MaxOf(Highs(last50)) - MinOf(Lows(last50))
    IN  recent > 0 /\ 2 * (amd.sessionHigh - amd.sessionLow) < recent

\* the last close lies in the lowest 35% / the highest 35% of the session
ClosesLow ==
    /\ amd.sessionHigh > amd.sessionLow
    /\ 100 * (candles[Len(candles)].close - amd.sessionLow)
          < 35 * (amd.sessionHigh - amd.sessionLow)

ClosesHigh ==
    /\ amd.sessionHigh > amd.sessionLow
    /\ 100 * (candles[Len(candles)].close - amd.sessionLow)
          > 65 * (amd.sessionHigh - amd.sessionLow)

\* C20: the phase is the first that matches in the order ACCUMULATION,
\* DISTRIBUTION, MANIPULATION, DECLINE, else TRANSITION, whatever later
\* conditions hold as well, and the strength is 70, 70, 60, 75, 40 by phase
C20_FirstMatchingPhase ==
    pc = "classified" =>
       /\ amd.phase =
             IF ClosesLow /\ Consolidating THEN "ACCUMULATION"
             ELSE IF ClosesHigh /\ Consolidating THEN "DISTRIBUTION"
             ELSE IF detectManipulation(candles) THEN "MANIPULATION"
             ELSE IF detectDecline(candles) THEN "DECLINE"
             ELSE "TRANSITION"
       /\ amd.strength =
             CASE amd.phase = "ACCUMULATION" -> 70
               [] amd.phase = "DISTRIBUTION" -> 70
               [] amd.phase = "MANIPULATION" -> 60
               [] amd.phase = "DECLINE" -> 75
               [] amd.phase = "TRANSITION" -> 40

\* accumulation, a liquidity sweep and a downtrend all hold on the window,
\* and the phase is ACCUMULATION at strength 70
C20_Witness ==
    /\ pc = "classified"
    /\ ClosesLow /\ Consolidating
    /\ detectManipulation(candles)
    /\ detectDecline(candles)
    /\ amd.phase = "ACCUMULATION"
    /\ amd.strength = 70

----------------------------------------------------------------------------
(* Properties of the regime bias                                            *)

\* what the range-position check says: the last close in the upper 40% of
\* the session is BEARISH, in the lower 40% BULLISH
PositionSays ==
    LET num == candles[Len(candles)].close - amd.sessionLow
        den == amd.sessionHigh - amd.sessionLow
    IN  IF den > 0 /\ 10 * num > 6 * den THEN "BEARISH"
        ELSE IF den > 0 /\ 10 * num < 4 * den THEN "BULLISH"
        ELSE "NEUTRAL"

\* what the EMA check says, when both averages exist and differ
EmaSays ==
    LET ema20 == calculateEMA(candles, 20)
        ema50 == calculateEMA(candles, 50)
    IN  IF ~(ema20.defined /\ ema50.defined) THEN "NOTHING"
        ELSE IF ema20.value > ema50.value THEN "BULLISH"
        ELSE IF ema20.value < ema50.value THEN "BEARISH"
        ELSE "NOTHING"

\* C21: the bias is NEUTRAL only when the range position and the EMA ordering
\* point in opposite directions; any other bias is a direction that one of
\* the two checks gives and the other does not contradict
C21_BiasFollowsChecks ==
    pc # "start" =>
       /\ amd.bias = "NEUTRAL" =>
             {PositionSays, EmaSays} = {"BULLISH", "BEARISH"}
       /\ amd.bias = "BULLISH" =>
             "BULLISH" \in {PositionSays, EmaSays}
             /\ "BEARISH" \notin {PositionSays, EmaSays}
       /\ amd.bias = "BEARISH" =>
             "BEARISH" \in {PositionSays, EmaSays}
             /\ "BULLISH" \notin {PositionSays, EmaSays}

----------------------------------------------------------------------------
(* Properties of the zone detectors                                         *)

\* C22: no gap returned as active has had its midpoint crossed by a bar that
\* comes after the gap's three bars (the gap's id carries the 0-based index
\* of its middle bar)
C22_ActiveGapsAreUncrossed ==
    "detectFVGs" \in ran =>
       \A g \in 1..Len(fvgs) :
          \A k \in (fvgs[g].id[2] + 3)..Len(candles) :
             /\ fvgs[g].type = "BULLISH" => candles[k].low >= fvgs[g].midpoint
             /\ fvgs[g].type = "BEARISH" => candles[k].high <= fvgs[g].midpoint

\* C23: every order block returned stands for two same-direction bars and an
\* opposite bar whose body exceeds 1.5 x the body of the setup (the block's
\* id carries the 0-based index i; the bars are i-2, i-1 and i+1)
C23_BlocksNeedAnImpulse ==
    "detectOrderBlocks" \in ran =>
       \A b \in 1..Len(orderBlocks) :
          LET i == orderBlocks[b].id[2]
              prev2 == candles[i - 1]
              prev1 == candles[i]
              next == candles[i + 2]
              falling(c) == c.close < c.open
              rising(c) == c.close > c.open
          IN  /\ IF orderBlocks[b].type = "BULLISH"
                 THEN falling(prev2) /\ falling(prev1) /\ rising(next)
                 ELSE rising(prev2) /\ rising(prev1) /\ falling(next)
              /\ 10 * Body(next) > 15 * (Body(prev2) + Body(prev1))

\* C24: of two liquidity pools the one built from the more recent swing never
\* has the lower strength
C24_RecentPoolsAreStronger ==
    "detectLiquidityZones" \in ran =>
       \A j, k \in 1..Len(liquidityZones) :
          liquidityZones[j].time < liquidityZones[k].time =>
             liquidityZones[j].strength <= liquidityZones[k].strength

\* C25: at most 6 levels, strongest first, each with strength
\* min(touches / 5, 1), and none broken by the latest close
C25_LevelsRankedAndUnbroken ==
    "detectSRLevels" \in ran =>
       /\ Len(srLevels) <= 6
       /\ \A k \in 1..Len(srLevels) :
             LET l == srLevels[k]
                 close == candles[Len(candles)].close
             IN  /\ l.touches >= 1
                 /\ 5 * l.strength.num = Min2(l.touches, 5) * l.strength.den
                 /\ ~l.broken
                 /\ l.type = "SUPPORT" => l.price.num <= close * l.price.den
                 /\ l.type = "RESISTANCE" => l.price.num >= close * l.price.den
                 /\ k > 1 =>
                       srLevels[k - 1].strength.num * l.strength.den
                          >= l.strength.num * srLevels[k - 1].strength.den

\* seven levels were found on 60 bars; six are returned, two-touch levels
\* before single touches, supports and resistances among them
C25_Witness ==
    /\ "detectSRLevels" \in ran
    /\ Len(candles) = 60
    /\ Len(srLevels) = 6
    /\ srLevels[1].touches = 2
    /\ srLevels[6].touches = 1
    /\ \E j, k \in 1..6 : srLevels[j].type = "SUPPORT"
                          /\ srLevels[k].type = "RESISTANCE"

----------------------------------------------------------------------------
(* Properties of the price-action and ICT signals                           *)

\* the score of one side, from the features the signal returns
ScoreOf(side) ==
    LET s == priceActionSignal
    IN  PatternScore(s.patterns, side) + WickScore(s.wickAnalysis, side)
        + ChartScore(IF s.chartPattern = NoChartPattern THEN <<>>
                     ELSE <<s.chartPattern>>, side)

\* C26: BUY exactly when bullishScore > bearishScore and bullishScore > 65,
\* SELL exactly when bearishScore > bullishScore and bearishScore > 65, WAIT
\* otherwise; a directional signal has confidence min(95, winning score),
\* within (65, 95]; a WAIT has confidence 0 and all levels at the current price
C26_ActionFollowsScores ==
    pc \notin {"start", "ict"} =>
       LET s == priceActionSignal
           bullishScore == ScoreOf("bullish")
           bearishScore == ScoreOf("bearish")
       IN  /\ s.action \in {"BUY", "SELL", "WAIT"}
           /\ s.action = "BUY" <=>
                 (bullishScore > bearishScore /\ bullishScore > 65 * Pt)
           /\ s.action = "SELL" <=>
                 (bearishScore > bullishScore /\ bearishScore > 65 * Pt)
           /\ s.action = "BUY" => s.confidence = Min2(95 * Pt, bullishScore)
           /\ s.action = "SELL" => s.confidence = Min2(95 * Pt, bearishScore)
           /\ s.action # "WAIT" =>
                 s.confidence > 65 * Pt /\ s.confidence <= 95 * Pt
           /\ s.action = "WAIT" =>
                 /\ s.confidence = 0
                 /\ s.entry = spotPrice
                 /\ s.stopLoss = spotPrice
                 /\ s.takeProfit1 = spotPrice
                 /\ s.takeProfit2 = spotPrice

\* a bullish score of 63 against 0 is not enough: the signal waits
C26_Witness ==
    /\ pc = "pa"
    /\ ScoreOf("bullish") > ScoreOf("bearish")
    /\ ScoreOf("bullish") > 0
    /\ ScoreOf("bullish") <= 65 * Pt
    /\ priceActionSignal.action = "WAIT"
    /\ priceActionSignal.stopLoss = spotPrice
    /\ spotPrice > 0

\* no oscillator rule of lines 861-882 sets an action
OscillatorWaits ==
    /\ rsi >= 30
    /\ rsi <= 70
    /\ ~(rsi < 40 /\ macd.histogram > 0)
    /\ ~(rsi > 60 /\ macd.histogram < 0)

\* C27 as stated: when no oscillator rule has set an action, BUY only if the
\* bias is BULLISH and rsi < 50, SELL only if the bias is BEARISH and
\* rsi > 50
C27_BiasAdoptedBesideFifty ==
    (pc # "start" /\ OscillatorWaits) =>
       /\ signal.action = "BUY" => (amd.bias = "BULLISH" /\ rsi < 50)
       /\ signal.action = "SELL" => (amd.bias = "BEARISH" /\ rsi > 50)

\* C27, amended: when no oscillator rule has set an action, the signal is BUY
\* exactly when the bias is BULLISH and rsi < 55, SELL exactly when the bias is
\* BEARISH and rsi > 45, and WAIT otherwise; an adopted bias is the first
\* confluence and, with no zones, the confidence is the one base 55 gives
C27_BiasAdoptedInsideBand ==
    (pc # "start" /\ OscillatorWaits) =>
       /\ signal.action = "BUY" <=> (amd.bias = "BULLISH" /\ rsi < 55)
       /\ signal.action = "SELL" <=> (amd.bias = "BEARISH" /\ rsi > 45)
       /\ signal.action \in {"BUY", "SELL", "WAIT"}
       /\ signal.action # "WAIT" =>
             /\ Head(signal.confluences).tag =
                   (IF signal.action = "BUY" THEN "AMD_BULLISH_BIAS"
                    ELSE "AMD_BEARISH_BIAS")
             /\ (orderBlocks = <<>> /\ fvgs = <<>> /\ srLevels = <<>>) =>
                   signal.confidence =
                      RoundPt(WeightedConfidence(55, amd.strength, 0))

\* a bullish regime turns rsi 50 into a BUY, a bearish one into a SELL
C27_Witness ==
    /\ pc = "ict"
    /\ rsi = 50
    /\ amd.bias = "BULLISH"
    /\ signal.action = "BUY"
    /\ Head(signal.confluences).tag = "AMD_BULLISH_BIAS"

\* the levels of a SELL, each below the one before
LadderFalls(sig) ==
    /\ sig.stopLoss > sig.entry
    /\ sig.entry > sig.tp1
    /\ sig.tp1 > sig.tp2
    /\ sig.tp2 > sig.tp3

\* C28: every fused signal with a direction has its levels on the correct side
\* of its entry (for atr > 0): stopLoss < entry < tp1 < tp2 < tp3 for BUY and
\* stopLoss > entry > tp1 > tp2 > tp3 for SELL, in all three directional
\* branches of combineSignals
C28_FusedLevelsOrdered ==
    (pc = "fused" /\ atr > 0) =>
       /\ hybridSignal.action = "BUY" => LadderRises(hybridSignal)
       /\ hybridSignal.action = "SELL" => LadderFalls(hybridSignal)

----------------------------------------------------------------------------
(* Properties of the context modifiers, step by step                        *)

PenaltyTags == {"WIDE_SPREAD", "NEAR_WEEKLY_HIGH_BUY_RISK",
                "NEAR_WEEKLY_LOW_SELL_RISK", "FUNDAMENTALS_CONFLICT"}

BoostTags == {"DISCOUNT_ZONE", "PREMIUM_ZONE", "FUNDAMENTALS_CONFIRM_BULLISH",
              "FUNDAMENTALS_CONFIRM_BEARISH"}

\* the tags of the confluences a sequence of notes contains
TagsOf(notes) == {notes[i].tag : i \in 1..Len(notes)}

\* C29: a step of the spread, weekly-range or fundamental modifier that
\* applies a penalty never raises the confidence and one that applies a boost
\* never lowers it, so the floor of 20 and the cap of 95 never move a
\* confidence against its modifier; and each such step applies at most one
\* rule, in particular at most one of the four weekly-range rules
C29_ModifiersMoveOneWay ==
    [][ (\/ pc = "fused" /\ pc' = "spread"
         \/ pc = "spread" /\ pc' = "weekly"
         \/ pc = "news" /\ pc' = "done") =>
           LET before == hybridSignal.confluences
               after == hybridSignal'.confluences
               added == SubSeq(after, Len(before) + 1, Len(after))
           IN  /\ Len(added) <= 1
               /\ SubSeq(after, 1, Len(before)) = before
               /\ added = <<>> =>
                     hybridSignal'.confidence = hybridSignal.confidence
               /\ \A i \in 1..Len(added) :
                     /\ added[i].tag \in PenaltyTags \cup BoostTags
                     /\ added[i].tag \in PenaltyTags =>
                           hybridSignal'.confidence <= hybridSignal.confidence
                     /\ added[i].tag \in BoostTags =>
                           hybridSignal'.confidence >= hybridSignal.confidence
      ]_vars

\* a BUY that met a wide spread, the weekly discount zone and conflicting
\* fundamentals: 10 and 15 below and 5 above what the fusion gave it
C29_Witness ==
    /\ pc = "done"
    /\ hybridSignal.action = "BUY"
    /\ {"WIDE_SPREAD", "DISCOUNT_ZONE", "FUNDAMENTALS_CONFLICT"}
          \subseteq TagsOf(hybridSignal.confluences)
    /\ hybridSignal.confidence = fused.confidence - 20 * Pt

----------------------------------------------------------------------------
(* Properties of fetchJsonWithRetry                                         *)

\* the fetch met a response with a status of the 2xx range and a JSON body
Succeeded(r) ==
    r.kind = "response" /\ r.status >= 200 /\ r.status <= 299 /\ ~r.rejects

\* a timeout abort, a network failure or one of the six HTTP statuses
RetryableCause(r) ==
    \/ r.kind \in {"timeout", "network"}
    \/ r.kind = "response" /\ r.status \in {408, 429, 500, 502, 503, 504}

RetryDone == pc \in {"returned", "thrown"}

\* C30: fetchJsonWithRetry ends after at most PROVIDER_MAX_RETRIES + 1 fetch
\* attempts (it never stops short of an end and never fetches more often); it
\* returns the body of the first successful attempt; every attempt that was
\* followed by another one met a retryable error (timeout abort, network
\* failure, HTTP 408/429/500/502/503/504) while attempts remained; otherwise
\* it throws the last error without a further attempt
C30_RetryIsBoundedAndSelective ==
    /\ Len(replies) <= maxRetries + 1
    /\ RetryDone \/ ENABLED NextRetry
    /\ \A i \in 1..Len(replies) :
          (i < Len(replies) \/ pc = "sleeping") =>
             (RetryableCause(replies[i]) /\ i <= maxRetries)
    /\ \A i \in 1..Len(replies) :
          Succeeded(replies[i]) =>
             (i = Len(replies) /\ returned = [kind |-> "body", reply |-> i])
    /\ (Len(replies) > 0 /\ ~Succeeded(replies[Len(replies)])
        /\ ~(RetryableCause(replies[Len(replies)])
             /\ Len(replies) <= maxRetries)) =>
          (pc = "thrown" /\ returned = [kind |-> "throw", error |-> lastError])

====
